---- MODULE Spec2Model ----
(***************************************************************************)
(* A model of the ray tracer core: f64 arithmetic, the square Matrix, the  *)
(* Tuple algebra, Ray, Sphere, the intersection list and World.            *)
(*                                                                         *)
(* An f64 is modelled as an exact fraction <<n, d>> in lowest terms with   *)
(* d > 0, plus the three IEEE specials: <<1, 0>> is +inf, <<-1, 0>> is     *)
(* -inf and <<0, 0>> is NaN.  Operations whose f64 result would not be an  *)
(* exact fraction (sqrt of a non-square, powf with a large exponent) are   *)
(* kept out of the inputs by the Exact... guards of the actions.           *)
(***************************************************************************)
EXTENDS Integers, Sequences, FiniteSets, TLC

\* ------------------------------------------------------------ let bindings

\* `let x = e; body`: e is evaluated once and body sees its value
Let(e, Body(_)) == CHOOSE r \in { Body(x) : x \in {e} } : TRUE
Let2(e1, e2, Body(_, _)) == CHOOSE r \in { Body(x, y) : x \in {e1}, y \in {e2} } : TRUE

\* ------------------------------------------------------------------ f64

NaN == <<0, 0>>
PosInf == <<1, 0>>
NegInf == <<-1, 0>>

Sgn(n) == IF n > 0 THEN 1 ELSE IF n < 0 THEN -1 ELSE 0
Abs(n) == IF n < 0 THEN -n ELSE n

RECURSIVE GCD(_, _)
GCD(a, b) == IF b = 0 THEN a ELSE GCD(b, a % b)

\* the fraction n/d (d >= 0) in lowest terms; d = 0 gives inf or NaN
Norm(n, d) ==
    IF d = 0 THEN <<Sgn(n), 0>>
    ELSE Let(GCD(Abs(n), d), LAMBDA g : <<n \div g, d \div g>>)

\* an integer literal such as 4.0
F(n) == <<n, 1>>
\* a literal such as 0.5 = Q(1, 2)
Q(n, d) == Norm(n, d)

IsNaN(a) == a = NaN
IsFinite(a) == a[2] # 0

FNeg(x) == Let(x, LAMBDA a : <<-a[1], a[2]>>)

FAdd(x, y) ==
    Let2(x, y, LAMBDA a, b :
        IF a[2] = 0 /\ b[2] = 0
        THEN (IF a[1] = b[1] THEN a ELSE NaN)
        ELSE IF a[2] = 0 THEN a
        ELSE IF b[2] = 0 THEN b
        ELSE Let(GCD(a[2], b[2]), LAMBDA g :
                 Norm(a[1] * (b[2] \div g) + b[1] * (a[2] \div g), (a[2] \div g) * b[2])))

FSub(a, b) == FAdd(a, FNeg(b))

FMul(x, y) ==
    Let2(x, y, LAMBDA a, b :
        IF a[2] = 0 \/ b[2] = 0
        THEN Norm(Sgn(a[1]) * Sgn(b[1]), 0)
        ELSE Let2(GCD(Abs(a[1]), b[2]), GCD(Abs(b[1]), a[2]), LAMBDA g1, g2 :
                 <<(a[1] \div g1) * (b[1] \div g2), (a[2] \div g2) * (b[2] \div g1)>>))

\* x / 0.0 is +-inf by the sign of x and NaN for 0.0 / 0.0 (IEEE 754)
FDiv(x, y) ==
    Let2(x, y, LAMBDA a, b :
        IF IsNaN(a) \/ IsNaN(b) THEN NaN
        ELSE IF b[2] = 0 THEN (IF a[2] = 0 THEN NaN ELSE <<0, 1>>)
        ELSE IF b[1] = 0 THEN <<Sgn(a[1]), 0>>
        ELSE FMul(a, <<Sgn(b[1]) * b[2], Abs(b[1])>>))

FAbs(x) == Let(x, LAMBDA a : <<Abs(a[1]), a[2]>>)

\* a < b on f64: false as soon as one side is NaN
FLt(x, y) ==
    Let2(x, y, LAMBDA a, b :
        IF IsNaN(a) \/ IsNaN(b) THEN FALSE
        ELSE IF a[2] = 0 \/ b[2] = 0
        THEN (IF a[2] = 0 /\ b[2] = 0 THEN a[1] < b[1]
              ELSE IF a[2] = 0 THEN a[1] < 0 ELSE b[1] > 0)
        ELSE a[1] * b[2] < b[1] * a[2])

FEq(x, y) == Let2(x, y, LAMBDA a, b : ~IsNaN(a) /\ ~IsNaN(b) /\ a = b)
FLe(x, y) == Let2(x, y, LAMBDA a, b : FLt(a, b) \/ FEq(a, b))
FGe(a, b) == FLe(b, a)

\* f64::partial_cmp: None when either side is NaN
partial_cmp(x, y) ==
    Let2(x, y, LAMBDA a, b :
        IF IsNaN(a) \/ IsNaN(b) THEN "None"
        ELSE IF FLt(a, b) THEN "Less"
        ELSE IF a = b THEN "Equal" ELSE "Greater")

\* the sum of a sequence of f64, folded from the left starting at 0.0
RECURSIVE FSum(_)
FSum(seq) ==
    Let(seq, LAMBDA s :
        IF s = <<>> THEN F(0) ELSE FAdd(FSum(SubSeq(s, 1, Len(s) - 1)), s[Len(s)]))

\* floor of the square root of a natural number
ISqrt(n) == CHOOSE k \in 0..n : k * k <= n /\ (k + 1) * (k + 1) > n

IsSquare(n) == Let(ISqrt(n), LAMBDA k : k * k = n)

\* sqrt gives an exact fraction for: NaN, +inf, negatives (NaN), and
\* fractions whose numerator and denominator are perfect squares
ExactSqrt(x) ==
    Let(x, LAMBDA a :
        IF a[2] = 0 \/ a[1] < 0 THEN TRUE ELSE IsSquare(a[1]) /\ IsSquare(a[2]))

FSqrt(x) ==
    Let(x, LAMBDA a :
        IF IsNaN(a) \/ a[1] < 0 THEN NaN
        ELSE IF a[2] = 0 THEN PosInf
        ELSE <<ISqrt(a[1]), ISqrt(a[2])>>)

\* ------------------------------------------------------------------ Tuple

point(x, y, z) == <<x, y, z, F(1)>>
vector(x, y, z) == <<x, y, z, F(0)>>
color(r, g, b) == <<r, g, b, F(0)>>

TAdd(x, y) ==
    Let2(x, y, LAMBDA a, b :
        <<FAdd(a[1], b[1]), FAdd(a[2], b[2]), FAdd(a[3], b[3]), FAdd(a[4], b[4])>>)
\* subtraction of x, y and z only, w taken from the left operand
TSub_w_kept(x, y) ==
    Let2(x, y, LAMBDA a, b :
        <<FSub(a[1], b[1]), FSub(a[2], b[2]), FSub(a[3], b[3]), a[4]>>)
TSub(x, y) ==
    Let2(x, y, LAMBDA a, b :
        <<FSub(a[1], b[1]), FSub(a[2], b[2]), FSub(a[3], b[3]), FSub(a[4], b[4])>>)
TNeg(x) == Let(x, LAMBDA a : <<FNeg(a[1]), FNeg(a[2]), FNeg(a[3]), FNeg(a[4])>>)
TMul(x, rhs) ==
    Let2(x, rhs, LAMBDA a, k : <<FMul(a[1], k), FMul(a[2], k), FMul(a[3], k), FMul(a[4], k)>>)
TDiv(x, rhs) ==
    Let2(x, rhs, LAMBDA a, k : <<FDiv(a[1], k), FDiv(a[2], k), FDiv(a[3], k), FDiv(a[4], k)>>)

dot(x, y) ==
    Let2(x, y, LAMBDA a, b :
        FAdd(FAdd(FAdd(FMul(a[1], b[1]), FMul(a[2], b[2])), FMul(a[3], b[3])),
             FMul(a[4], b[4])))

magnitude(x) ==
    Let(x, LAMBDA a :
        FSqrt(FAdd(FAdd(FMul(a[1], a[1]), FMul(a[2], a[2])), FMul(a[3], a[3]))))

\* normalize that divides by x^2 + y^2 + z^2, the square root forgotten
normalize_by_square(x) ==
    Let(x, LAMBDA a :
        Let(FAdd(FAdd(FMul(a[1], a[1]), FMul(a[2], a[2])), FMul(a[3], a[3])), LAMBDA m2 :
            <<FDiv(a[1], m2), FDiv(a[2], m2), FDiv(a[3], m2), FDiv(a[4], m2)>>))

normalize(x) ==
    Let(x, LAMBDA a :
        <<FDiv(a[1], magnitude(a)), FDiv(a[2], magnitude(a)),
          FDiv(a[3], magnitude(a)), FDiv(a[4], magnitude(a))>>)

\* magnitude takes the square root of an exact square
ExactMagnitude(x) ==
    Let(x, LAMBDA a :
        ExactSqrt(FAdd(FAdd(FMul(a[1], a[1]), FMul(a[2], a[2])), FMul(a[3], a[3]))))

hadamard(x, y) ==
    Let2(x, y, LAMBDA a, b :
        <<FMul(a[1], b[1]), FMul(a[2], b[2]), FMul(a[3], b[3]), FMul(a[4], b[4])>>)

\* reflect is not among the source files; from the specification:
\* reflect(v, n) = v - n * 2 * (v . n)
reflect(x, y) == Let2(x, y, LAMBDA v, n : TSub(v, TMul(TMul(n, F(2)), dot(v, n))))

\* powf for an exponent that is a natural number
RECURSIVE powf(_, _)
powf(base, e) ==
    Let2(base, e, LAMBDA x, s :
        IF s[1] = 0 THEN F(1)
        ELSE IF x \in {F(0), F(1)} THEN x
        ELSE FMul(x, powf(x, <<s[1] - 1, 1>>)))

\* largest exponent to which a fraction other than 0 and 1 is raised
MaxPow == 4

ExactPow(base, e) ==
    Let2(base, e, LAMBDA x, s :
        s[2] = 1 /\ s[1] >= 0 /\ (s[1] <= MaxPow \/ x \in {F(0), F(1)}))

\* ------------------------------------------------------------------ Matrix

from_vector(d, e) == [dim |-> d, elems |-> e]

identity ==
    from_vector(4, <<F(1), F(0), F(0), F(0),
                     F(0), F(1), F(0), F(0),
                     F(0), F(0), F(1), F(0),
                     F(0), F(0), F(0), F(1)>>)

\* rows and columns count from 0 as in the source; sequences from 1
at(m, r, c) == m.elems[r * m.dim + c + 1]

\* assert!(self.dim == 4)
tuple_prod_pre(m) == m.dim = 4

\* tuple_prod that adds the last column whatever w is
tuple_prod_w_one(self, x) ==
    Let2(self, x, LAMBDA m, t :
        LET rowdot(r) ==
                FAdd(FAdd(FAdd(FMul(at(m, r, 0), t[1]), FMul(at(m, r, 1), t[2])),
                          FMul(at(m, r, 2), t[3])), at(m, r, 3))
        IN <<rowdot(0), rowdot(1), rowdot(2), t[4]>>)

tuple_prod(self, x) ==
    Let2(self, x, LAMBDA m, t :
        LET rowdot(r) ==
                FAdd(FAdd(FAdd(FMul(at(m, r, 0), t[1]), FMul(at(m, r, 1), t[2])),
                          FMul(at(m, r, 2), t[3])), FMul(at(m, r, 3), t[4]))
        IN <<rowdot(0), rowdot(1), rowdot(2), rowdot(3)>>)

\* transpose that pushes self.at(r, c): the rows stay rows
transpose_rows_kept(self) ==
    Let(self, LAMBDA m :
        from_vector(m.dim,
            [i \in 1..(m.dim * m.dim) |-> at(m, (i - 1) \div m.dim, (i - 1) % m.dim)]))

transpose(self) ==
    Let(self, LAMBDA m :
        from_vector(m.dim,
            [i \in 1..(m.dim * m.dim) |-> at(m, (i - 1) % m.dim, (i - 1) \div m.dim)]))

\* submatrix with `r != row || c != col`: only the cell (row, col) is left out
submatrix_or(self, row, col) ==
    Let(self, LAMBDA m :
        Let(SelectSeq([i \in 1..(m.dim * m.dim) |-> i - 1],
                      LAMBDA i : (i \div m.dim) # row \/ (i % m.dim) # col),
            LAMBDA kept :
                from_vector(m.dim - 1, [k \in 1..Len(kept) |-> m.elems[kept[k] + 1]])))

\* the cells (r, c) with r # row and c # col, pushed in row-major order
submatrix(self, row, col) ==
    Let(self, LAMBDA m :
        Let(SelectSeq([i \in 1..(m.dim * m.dim) |-> i - 1],
                      LAMBDA i : (i \div m.dim) # row /\ (i % m.dim) # col),
            LAMBDA kept :
                from_vector(m.dim - 1, [k \in 1..Len(kept) |-> m.elems[kept[k] + 1]])))

RECURSIVE det(_)
minor(m, row, col) == det(submatrix(m, row, col))

\* cofactor without the change of sign
cofactor_unsigned(m, row, col) == minor(m, row, col)

\* the source writes `row + col % 2 == 0`, where % binds tighter than +
cofactor(m, row, col) ==
    IF row + (col % 2) = 0 THEN minor(m, row, col) ELSE FNeg(minor(m, row, col))

det(self) ==
    Let(self, LAMBDA m :
        IF m.dim = 2
        THEN FSub(FMul(at(m, 0, 0), at(m, 1, 1)), FMul(at(m, 0, 1), at(m, 1, 0)))
        ELSE FSum([k \in 1..m.dim |-> FMul(at(m, 0, k - 1), cofactor(m, 0, k - 1))]))

\* assert!(self.dim == other.dim)
\* the product without its assert!
mul_pre_unchecked(a, b) == TRUE

mul_pre(a, b) == a.dim = b.dim

\* the product with its operands exchanged
mul_reversed(self, other) ==
    Let2(self, other, LAMBDA a, b :
        LET d == a.dim
            celldot(r, c) == FSum([x \in 1..d |-> FMul(at(b, r, x - 1), at(a, x - 1, c))])
        IN from_vector(d, [i \in 1..(d * d) |-> celldot((i - 1) \div d, (i - 1) % d)]))

\* the product taken element by element
mul_elementwise(self, other) ==
    Let2(self, other, LAMBDA a, b :
        from_vector(a.dim, [i \in 1..(a.dim * a.dim) |-> FMul(a.elems[i], b.elems[i])]))

mul(self, other) ==
    Let2(self, other, LAMBDA a, b :
        LET d == a.dim
            celldot(r, c) == FSum([x \in 1..d |-> FMul(at(a, r, x - 1), at(b, x - 1, c))])
        IN from_vector(d, [i \in 1..(d * d) |-> celldot((i - 1) \div d, (i - 1) % d)]))

\* |x - y| < 1e-6 without leaving the 32-bit integers
LtEps6(diff) ==
    Let(diff, LAMBDA x :
        x[2] # 0 /\ (x[1] = 0 \/ (Abs(x[1]) <= 2000 /\ Abs(x[1]) * 1000000 < x[2])))

\* zip stops at the shorter of the two element vectors
matrix_eq(self, other) ==
    Let2(self, other, LAMBDA a, b :
        LET n == IF Len(a.elems) < Len(b.elems) THEN Len(a.elems) ELSE Len(b.elems)
        IN a.dim = b.dim /\ \A i \in 1..n : LtEps6(FSub(a.elems[i], b.elems[i])))

\* The inverse is not among the source files; it is modelled from the
\* specification: the transposed matrix of cofactors (minor with the
\* checkerboard sign (-1)^(row+col)) divided by the determinant, and an
\* explicit error for a singular matrix.

\* the matrix of cofactors over the determinant, not transposed
adjugate_over_det_untransposed(self) ==
    Let2(self, det(self), LAMBDA m, dt :
        LET d == m.dim
            cof(row, col) ==
                IF (row + col) % 2 = 0 THEN minor(m, row, col) ELSE FNeg(minor(m, row, col))
        IN from_vector(d, [i \in 1..(d * d) |-> FDiv(cof((i - 1) \div d, (i - 1) % d), dt)]))

adjugate_over_det(self) ==
    Let2(self, det(self), LAMBDA m, dt :
        LET d == m.dim
            cof(row, col) ==
                IF (row + col) % 2 = 0 THEN minor(m, row, col) ELSE FNeg(minor(m, row, col))
        IN from_vector(d, [i \in 1..(d * d) |-> FDiv(cof((i - 1) % d, (i - 1) \div d), dt)]))

\* the placement transforms of the sphere inputs
TransformInputs ==
    { identity,
      from_vector(4, <<F(2), F(0), F(0), F(0), F(0), F(2), F(0), F(0),
                       F(0), F(0), F(2), F(0), F(0), F(0), F(0), F(1)>>),
      from_vector(4, <<Q(1, 2), F(0), F(0), F(0), F(0), Q(1, 2), F(0), F(0),
                       F(0), F(0), Q(1, 2), F(0), F(0), F(0), F(0), F(1)>>),
      from_vector(4, <<F(1), F(0), F(0), F(0), F(0), F(1), F(0), F(0),
                       F(0), F(0), F(1), F(-1), F(0), F(0), F(0), F(1)>>),
      from_vector(4, <<F(1), F(0), F(0), F(0), F(0), F(0), F(0), F(0),
                       F(0), F(0), F(1), F(0), F(0), F(0), F(0), F(1)>>) }

\* det and inverse of the placement transforms, computed once
TransformTable ==
    [m \in TransformInputs |-> [det |-> det(m), inv |-> adjugate_over_det(m)]]

\* inverse that divides by the determinant whatever it is
inverse_pre_unchecked(m) == TRUE

inverse_pre(m) ==
    IF m \in TransformInputs THEN TransformTable[m].det # F(0) ELSE det(m) # F(0)

inverse(m) ==
    IF m \in TransformInputs THEN TransformTable[m].inv ELSE adjugate_over_det(m)

\* ------------------------------------------------------------------ state

VARIABLES
    matrix,     \* the Matrix the matrix operations are called on
    mres,       \* the last matrix call: operation, arguments, result
    world,      \* the World: light (Option as a sequence of length <= 1), objects
    ray,        \* the Ray the sphere and world operations are called with
    wres,       \* the last sphere or world call: operation, arguments, result
    xs,         \* the intersection list handed to intersections()
    lres,       \* the last call on the list: operation, result
    args,       \* the arguments of a call of a function of tuples, matrices or materials
    res,        \* that call: operation, result
    canvas,     \* the Canvas: width, height, the vector of pixels
    cres,       \* the last call on the canvas: operation, arguments, result
    written     \* history: the colour last written to each pixel since Canvas::new

vars == <<matrix, mres, world, ray, wres, xs, lres, args, res, canvas, cres, written>>

\* -------------------------------------------------- transformation builders

translation(x, y, z) ==
    from_vector(4, <<F(1), F(0), F(0), x,
                     F(0), F(1), F(0), y,
                     F(0), F(0), F(1), z,
                     F(0), F(0), F(0), F(1)>>)

scaling(x, y, z) ==
    from_vector(4, <<x, F(0), F(0), F(0),
                     F(0), y, F(0), F(0),
                     F(0), F(0), z, F(0),
                     F(0), F(0), F(0), F(1)>>)

\* ------------------------------------------------------------------ Ray

Ray_new(origin, direction) == [origin |-> origin, direction |-> direction]

position(self, t) == Let(self, LAMBDA r : TAdd(r.origin, TMul(r.direction, t)))

Ray_transform(self, matrix_) ==
    Let2(self, matrix_, LAMBDA r, m :
        [origin |-> tuple_prod(m, r.origin), direction |-> tuple_prod(m, r.direction)])

\* ------------------------------------------------------- Material and light

Material_new ==
    [color |-> color(F(1), F(1), F(1)), ambient |-> Q(1, 10), diffuse |-> Q(9, 10),
     specular |-> Q(9, 10), shininess |-> F(200)]

PointLight_new(pos, inte) == [position |-> pos, intensity |-> inte]

Black == color(F(0), F(0), F(0))

\* a color with every component above 1 cut to 1
Clamp(c) ==
    Let(c, LAMBDA a :
        <<IF FLt(F(1), a[1]) THEN F(1) ELSE a[1], IF FLt(F(1), a[2]) THEN F(1) ELSE a[2],
          IF FLt(F(1), a[3]) THEN F(1) ELSE a[3], a[4]>>)

\* lightning that keeps the diffuse term when the light is on the far side of
\* the surface
lightning_far_side_diffuse(self, light, pt, eyev, normalv) ==
    Let(hadamard(self.color, light.intensity), LAMBDA effective_color :
    Let(normalize(TSub(light.position, pt)), LAMBDA lightv :
    Let(TMul(effective_color, self.ambient), LAMBDA ambient :
    Let(dot(lightv, normalv), LAMBDA light_dot_normal :
    Let(TMul(TMul(effective_color, self.diffuse), light_dot_normal), LAMBDA diffuse :
        IF FLt(light_dot_normal, F(0))
        THEN TAdd(TAdd(ambient, diffuse), Black)
        ELSE
            Let(reflect(TNeg(lightv), normalv), LAMBDA reflectv :
            Let(dot(reflectv, eyev), LAMBDA reflect_dot_eye :
                IF FLe(reflect_dot_eye, F(0))
                THEN TAdd(TAdd(ambient, diffuse), Black)
                ELSE
                    Let(powf(reflect_dot_eye, self.shininess), LAMBDA factor :
                        TAdd(TAdd(ambient, diffuse),
                             TMul(TMul(light.intensity, self.specular), factor))))))))))

\* lightning with the sum cut to the displayable range
lightning_clamped(self, light, pt, eyev, normalv) ==
    Clamp(
    Let(hadamard(self.color, light.intensity), LAMBDA effective_color :
    Let(normalize(TSub(light.position, pt)), LAMBDA lightv :
    Let(TMul(effective_color, self.ambient), LAMBDA ambient :
    Let(dot(lightv, normalv), LAMBDA light_dot_normal :
        IF FLt(light_dot_normal, F(0))
        THEN TAdd(TAdd(ambient, Black), Black)
        ELSE
            Let(TMul(TMul(effective_color, self.diffuse), light_dot_normal), LAMBDA diffuse :
            Let(reflect(TNeg(lightv), normalv), LAMBDA reflectv :
            Let(dot(reflectv, eyev), LAMBDA reflect_dot_eye :
                IF FLe(reflect_dot_eye, F(0))
                THEN TAdd(TAdd(ambient, diffuse), Black)
                ELSE
                    Let(powf(reflect_dot_eye, self.shininess), LAMBDA factor :
                        TAdd(TAdd(ambient, diffuse),
                             TMul(TMul(light.intensity, self.specular), factor)))))))))))

lightning(self, light, pt, eyev, normalv) ==
    Let(hadamard(self.color, light.intensity), LAMBDA effective_color :
    Let(normalize(TSub(light.position, pt)), LAMBDA lightv :
    Let(TMul(effective_color, self.ambient), LAMBDA ambient :
    Let(dot(lightv, normalv), LAMBDA light_dot_normal :
        IF FLt(light_dot_normal, F(0))
        THEN TAdd(TAdd(ambient, Black), Black)
        ELSE
            Let(TMul(TMul(effective_color, self.diffuse), light_dot_normal), LAMBDA diffuse :
            Let(reflect(TNeg(lightv), normalv), LAMBDA reflectv :
            Let(dot(reflectv, eyev), LAMBDA reflect_dot_eye :
                IF FLe(reflect_dot_eye, F(0))
                THEN TAdd(TAdd(ambient, diffuse), Black)
                ELSE
                    Let(powf(reflect_dot_eye, self.shininess), LAMBDA factor :
                        TAdd(TAdd(ambient, diffuse),
                             TMul(TMul(light.intensity, self.specular), factor))))))))))

\* the square root and the power taken by lightning are exact fractions
ExactLightning(self, light, pt, eyev, normalv) ==
    /\ ExactMagnitude(TSub(light.position, pt))
    /\ Let(normalize(TSub(light.position, pt)), LAMBDA lightv :
       Let(dot(reflect(TNeg(lightv), normalv), eyev), LAMBDA reflect_dot_eye :
           (~FLt(dot(lightv, normalv), F(0)) /\ ~FLe(reflect_dot_eye, F(0)))
               => ExactPow(reflect_dot_eye, self.shininess)))

\* ------------------------------------------------------------------ Canvas

\* the vector canvas of w * h pixels is a sequence; its index i is i + 1 here
Canvas_new(w, h) ==
    [width |-> w, height |-> h, canvas |-> [i \in 1..(w * h) |-> color(F(0), F(0), F(0))]]

\* the index with the height in the place of the width
index_by_height(self, x, y) == x + y * self.height

\* x + y * self.width
index(self, x, y) == x + y * self.width

\* the bounds check of the indexing of a Vec
index_pre(self, x, y) == index(self, x, y) < Len(self.canvas)

pixel_at(self, x, y) == self.canvas[index(self, x, y) + 1]

write_pixel(self, x, y, c) == [self EXCEPT !.canvas[index(self, x, y) + 1] = c]

NoCanvasResult == [op |-> "none", x |-> 0, y |-> 0, out |-> <<>>, ok |-> TRUE]

\* ------------------------------------------------------------------ Sphere

\* a &Sphere is the index of the sphere in world.objects
Sphere_new == [transform |-> identity, material |-> Material_new]

Intersection_new(t, object) == [t |-> t, object |-> object]

\* inverse() of the transform fails on a singular matrix
Sphere_pre(self) == inverse_pre(world.objects[self].transform)

\* the discriminant with c = sphere_to_ray . sphere_to_ray, the radius forgotten
discriminant_no_radius(self, orig_ray) ==
    Let(Ray_transform(orig_ray, inverse(world.objects[self].transform)), LAMBDA tray :
    Let(TSub(tray.origin, point(F(0), F(0), F(0))), LAMBDA sphere_to_ray :
    Let(dot(tray.direction, tray.direction), LAMBDA a :
    Let(FMul(F(2), dot(tray.direction, sphere_to_ray)), LAMBDA b :
    Let(dot(sphere_to_ray, sphere_to_ray), LAMBDA c :
        FSub(FMul(b, b), FMul(FMul(F(4), a), c)))))))

\* b * b - 4.0 * a * c of the ray taken into object space
discriminant(self, orig_ray) ==
    Let(Ray_transform(orig_ray, inverse(world.objects[self].transform)), LAMBDA tray :
    Let(TSub(tray.origin, point(F(0), F(0), F(0))), LAMBDA sphere_to_ray :
    Let(dot(tray.direction, tray.direction), LAMBDA a :
    Let(FMul(F(2), dot(tray.direction, sphere_to_ray)), LAMBDA b :
    Let(FSub(dot(sphere_to_ray, sphere_to_ray), F(1)), LAMBDA c :
        FSub(FMul(b, b), FMul(FMul(F(4), a), c)))))))

\* intersect that returns a tangent point once
Sphere_intersect_tangent_once(self, orig_ray) ==
    Let(Ray_transform(orig_ray, inverse(world.objects[self].transform)), LAMBDA tray :
    Let(TSub(tray.origin, point(F(0), F(0), F(0))), LAMBDA sphere_to_ray :
    Let(dot(tray.direction, tray.direction), LAMBDA a :
    Let(FMul(F(2), dot(tray.direction, sphere_to_ray)), LAMBDA b :
    Let(discriminant(self, orig_ray), LAMBDA disc :
        IF FLt(disc, F(0)) THEN <<>>
        ELSE
            Let(FDiv(FSub(FNeg(b), FSqrt(disc)), FMul(F(2), a)), LAMBDA t1 :
            Let(FDiv(FAdd(FNeg(b), FSqrt(disc)), FMul(F(2), a)), LAMBDA t2 :
                IF disc = F(0) THEN <<Intersection_new(t1, self)>>
                ELSE <<Intersection_new(t1, self), Intersection_new(t2, self)>>)))))))

Sphere_intersect(self, orig_ray) ==
    Let(Ray_transform(orig_ray, inverse(world.objects[self].transform)), LAMBDA tray :
    Let(TSub(tray.origin, point(F(0), F(0), F(0))), LAMBDA sphere_to_ray :
    Let(dot(tray.direction, tray.direction), LAMBDA a :
    Let(FMul(F(2), dot(tray.direction, sphere_to_ray)), LAMBDA b :
    Let(discriminant(self, orig_ray), LAMBDA disc :
        IF FLt(disc, F(0)) THEN <<>>
        ELSE
            Let(FDiv(FSub(FNeg(b), FSqrt(disc)), FMul(F(2), a)), LAMBDA t1 :
            Let(FDiv(FAdd(FNeg(b), FSqrt(disc)), FMul(F(2), a)), LAMBDA t2 :
                <<Intersection_new(t1, self), Intersection_new(t2, self)>>)))))))

ExactIntersect(self, orig_ray) == ExactSqrt(discriminant(self, orig_ray))

\* normal_at that normalizes world_normal as it is, its w not set to 0
normal_at_w_kept(self, world_point) ==
    Let(tuple_prod(inverse(world.objects[self].transform), world_point), LAMBDA object_point :
    Let(TSub(object_point, point(F(0), F(0), F(0))), LAMBDA object_normal :
    Let(tuple_prod(transpose(inverse(world.objects[self].transform)), object_normal),
        LAMBDA world_normal :
        normalize(world_normal))))

normal_at(self, world_point) ==
    Let(tuple_prod(inverse(world.objects[self].transform), world_point), LAMBDA object_point :
    Let(TSub(object_point, point(F(0), F(0), F(0))), LAMBDA object_normal :
    Let(tuple_prod(transpose(inverse(world.objects[self].transform)), object_normal),
        LAMBDA world_normal :
    Let(vector(world_normal[1], world_normal[2], world_normal[3]), LAMBDA world_normal2 :
        normalize(world_normal2)))))

ExactNormalAt(self, world_point) ==
    Let(tuple_prod(inverse(world.objects[self].transform), world_point), LAMBDA object_point :
    Let(TSub(object_point, point(F(0), F(0), F(0))), LAMBDA object_normal :
    Let(tuple_prod(transpose(inverse(world.objects[self].transform)), object_normal),
        LAMBDA world_normal :
        ExactMagnitude(vector(world_normal[1], world_normal[2], world_normal[3])))))

\* ------------------------------------------------------------ Intersection

\* prepare_computations without the branch that negates the normal
prepare_computations_no_flip(self, ray_) ==
    Let2(self, ray_, LAMBDA i, r :
    Let(TNeg(r.direction), LAMBDA eyev_ :
    Let(normal_at(i.object, position(r, i.t)), LAMBDA normalv_ :
        [t |-> i.t, object |-> i.object, point |-> position(r, i.t), eyev |-> eyev_,
         normalv |-> normalv_, inside |-> FALSE])))

prepare_computations(self, ray_) ==
    Let2(self, ray_, LAMBDA i, r :
    Let(TNeg(r.direction), LAMBDA eyev_ :
    Let(normal_at(i.object, position(r, i.t)), LAMBDA normalv_ :
    Let(FLt(dot(normalv_, eyev_), F(0)), LAMBDA inside_ :
        [t |-> i.t, object |-> i.object, point |-> position(r, i.t), eyev |-> eyev_,
         normalv |-> IF inside_ THEN TNeg(normalv_) ELSE normalv_, inside |-> inside_]))))

\* the slice sort of the standard library is stable; it is written here as
\* an insertion sort, which gives the same result for every comparator
\* that is a total order.  cmp(a, b) is "Less", "Equal" or "Greater".
sort_by(slice, cmp(_, _)) ==
    Let(slice, LAMBDA s :
        LET RECURSIVE insert(_, _)
            insert(prefix, elem) ==
                Let2(prefix, elem, LAMBDA sorted, x :
                    IF sorted = <<>> THEN <<x>>
                    ELSE IF cmp(sorted[Len(sorted)], x) = "Greater"
                         THEN Append(insert(SubSeq(sorted, 1, Len(sorted) - 1), x),
                                     sorted[Len(sorted)])
                         ELSE Append(sorted, x))
            RECURSIVE sorted_prefix(_)
            sorted_prefix(n) == IF n = 0 THEN <<>> ELSE insert(sorted_prefix(n - 1), s[n])
        IN sorted_prefix(Len(s)))

\* a.t.partial_cmp(&b.t).unwrap_or(Ordering::Equal)
cmp_or_equal(a, b) ==
    Let(partial_cmp(a.t, b.t), LAMBDA o : IF o = "None" THEN "Equal" ELSE o)

\* intersections with a sort that is not stable: equal t values change places
intersections_unstable(list) ==
    sort_by(list, LAMBDA a, b : IF cmp_or_equal(a, b) = "Less" THEN "Less" ELSE "Greater")

intersections(list) == sort_by(list, cmp_or_equal)

\* hit that takes the first intersection whatever its t
hit_first(list) == IF list = <<>> THEN 0 ELSE 1

\* hit with x.t > 0.0 in place of x.t >= 0.0
hit_strict(list) ==
    Let(list, LAMBDA l :
        IF \E i \in 1..Len(l) : FLt(F(0), l[i].t)
        THEN CHOOSE i \in 1..Len(l) :
                /\ FLt(F(0), l[i].t)
                /\ \A j \in 1..(i - 1) : ~FLt(F(0), l[j].t)
        ELSE 0)

\* Some(&list[i]) is the index i, None is 0
hit(list) ==
    Let(list, LAMBDA l :
        IF \E i \in 1..Len(l) : FGe(l[i].t, F(0))
        THEN CHOOSE i \in 1..Len(l) :
                /\ FGe(l[i].t, F(0))
                /\ \A j \in 1..(i - 1) : ~FGe(l[j].t, F(0))
        ELSE 0)

\* ------------------------------------------------------------------ World

World_new == [light |-> <<>>, objects |-> <<>>]

\* the material of the first sphere of World::default()
DefaultMaterial ==
    [color |-> color(Q(8, 10), F(1), Q(6, 10)), ambient |-> F(0), shininess |-> F(0),
     diffuse |-> Q(7, 10), specular |-> Q(2, 10)]

World_default ==
    [light |-> <<PointLight_new(point(F(-10), F(10), F(-10)), color(F(1), F(1), F(1)))>>,
     objects |-> << [transform |-> identity, material |-> DefaultMaterial],
                    [transform |-> scaling(Q(1, 2), Q(1, 2), Q(1, 2)), material |-> Material_new] >>]

RECURSIVE Flatten(_)
Flatten(seqs) ==
    Let(seqs, LAMBDA vecs :
        IF vecs = <<>> THEN <<>>
        ELSE Flatten(SubSeq(vecs, 1, Len(vecs) - 1)) \o vecs[Len(vecs)])

\* a.t.partial_cmp(&b.t).unwrap()
cmp_unwrap(a, b) == partial_cmp(a.t, b.t)

\* every sphere can be intersected, and unwrap() meets no None: the sort
\* compares every element of a vector of two or more
World_intersect_pre(r) ==
    /\ \A i \in 1..Len(world.objects) : Sphere_pre(i)
    /\ Let(Flatten([i \in 1..Len(world.objects) |-> Sphere_intersect(i, r)]), LAMBDA vv :
           Len(vv) >= 2 => \A k \in 1..Len(vv) : ~IsNaN(vv[k].t))

\* World.intersect without the sort
World_intersect_unsorted(r) ==
    Let([i \in 1..Len(world.objects) |-> Sphere_intersect(i, r)], LAMBDA vecs :
        Flatten(vecs))

\* World.intersect that walks the objects from the last to the first
World_intersect_reversed(r) ==
    Let([i \in 1..Len(world.objects) |->
            Sphere_intersect(Len(world.objects) + 1 - i, r)], LAMBDA vecs :
        sort_by(Flatten(vecs), cmp_unwrap))

World_intersect(r) ==
    Let([i \in 1..Len(world.objects) |-> Sphere_intersect(i, r)], LAMBDA vecs :
        sort_by(Flatten(vecs), cmp_unwrap))

ExactWorldIntersect(r) == \A i \in 1..Len(world.objects) : ExactIntersect(i, r)

\* unwrap that puts the light of World::default() in the place of None
light_unwrap_or_default ==
    IF world.light = <<>>
    THEN <<PointLight_new(point(F(-10), F(10), F(-10)), color(F(1), F(1), F(1)))>>
    ELSE world.light

\* self.light.unwrap(): the light in a sequence of length 1, or the empty
\* sequence when unwrap() panics on None
light_unwrap == world.light

shade_hit_pre == Len(light_unwrap) = 1

shade_hit(comps) ==
    Let(comps, LAMBDA c :
        lightning(world.objects[c.object].material, light_unwrap[1], c.point, c.eyev,
                  c.normalv))

color_at_pre(r) ==
    /\ World_intersect_pre(r)
    /\ Let(World_intersect(r), LAMBDA is : hit(is) # 0 => shade_hit_pre)

\* color_at that shades the last intersection of the list in place of the hit
color_at_last(r) ==
    Let(World_intersect(r), LAMBDA is :
    Let(hit(is), LAMBDA i :
        IF i = 0 THEN color(F(0), F(0), F(0))
        ELSE Let(prepare_computations(is[Len(is)], r), LAMBDA comps : shade_hit(comps))))

color_at(r) ==
    Let(World_intersect(r), LAMBDA is :
    Let(hit(is), LAMBDA i :
        IF i = 0 THEN color(F(0), F(0), F(0))
        ELSE Let(prepare_computations(is[i], r), LAMBDA comps : shade_hit(comps))))

ExactColorAt(r) ==
    /\ ExactWorldIntersect(r)
    /\ Let(World_intersect(r), LAMBDA is :
       Let(hit(is), LAMBDA i :
           (i # 0 /\ shade_hit_pre) =>
               /\ ExactNormalAt(is[i].object, position(r, is[i].t))
               /\ Let(prepare_computations(is[i], r), LAMBDA c :
                      ExactLightning(world.objects[c.object].material, light_unwrap[1],
                                     c.point, c.eyev, c.normalv))))

\* ---------------------------------------------------------- matrix inputs

\* largest absolute value written into a cell of an input matrix
MaxEntry == 1
\* largest |det| of a matrix handed to inverse
MaxDet == 6

Ints(s) == [i \in 1..Len(s) |-> F(s[i])]

\* element vectors of the tests of matrix.rs
BaseVectors ==
    { <<1, 5, -3, 2>>,
      <<3, 5, 0, 2, -1, -7, 6, -1, 5>>,
      <<1, 2, 6, -5, 8, -4, 2, 6, 4>>,
      <<-2, -8, 3, 5, -3, 1, 7, 3, 1, 2, -9, 6, -6, 7, 7, -9>>,
      <<-2, 1, 2, 3, 3, 2, 1, -1, 4, 3, 6, 5, 1, 2, 7, 8>>,
      <<1, 0, 0, 0, 0, 1, 0, 0, 0, 0, 1, 0, 0, 0, 0, 1>>,
      <<1, 0, 0, 5, 0, 1, 0, -3, 0, 0, 1, 2, 0, 0, 0, 1>> }

DimOf(s) == CHOOSE d \in 2..4 : d * d = Len(s)

\* a base vector, or a base vector with one cell overwritten
InputVectors ==
    BaseVectors \cup
    UNION { { [b EXCEPT ![i] = v] : i \in DOMAIN b, v \in -MaxEntry..MaxEntry } : b \in BaseVectors }

\* ---------------------------------------------------- sphere and world inputs

\* largest number of spheres in a world
MaxObjects == 2

White == color(F(1), F(1), F(1))

\* the spheres of the tests of sphere.rs, one sphere placed to touch them, and one
\* sphere whose transform is singular
SphereInputs ==
    { Sphere_new,
      [transform |-> scaling(F(2), F(2), F(2)), material |-> Material_new],
      [transform |-> translation(F(0), F(0), F(-1)), material |-> DefaultMaterial],
      [transform |-> scaling(F(1), F(0), F(1)), material |-> Material_new] }

LightInputs ==
    { <<>>, <<PointLight_new(point(F(0), F(0), F(-10)), White)>> }

WorldInputs ==
    { World_default } \cup
    { [light |-> l, objects |-> o] :
        l \in LightInputs, o \in UNION { [1..n -> SphereInputs] : n \in 0..MaxObjects } }

\* origins and directions of the rays of the tests of sphere.rs and world.rs
RayInputs ==
    { Ray_new(o, d) :
        o \in { point(F(0), F(0), F(-5)), point(F(0), F(1), F(-5)), point(F(0), F(2), F(-5)),
                point(F(0), F(0), F(0)), point(F(0), F(0), F(5)) },
        d \in { vector(F(0), F(0), F(1)), vector(F(0), F(1), F(0)), vector(F(0), F(0), F(-1)) } }

\* world points handed to normal_at
PointInputs ==
    { point(F(1), F(0), F(0)), point(F(0), F(1), F(0)), point(F(0), F(0), F(1)),
      point(F(0), F(0), F(-1)), point(F(0), F(0), F(-2)), point(F(0), F(3), F(4)) }

\* the t of the intersections handed to prepare_computations
TInputs == { F(-1), Q(1, 2), F(1), F(4), F(6) }

NoComps ==
    [t |-> F(0), object |-> 0, point |-> Black, eyev |-> Black, normalv |-> Black,
     inside |-> FALSE]

NoWorldResult ==
    [op |-> "none", self |-> 0, arg |-> Black, xs |-> <<>>, hit |-> 0, color |-> Black,
     isect |-> Intersection_new(F(0), 0), comps |-> NoComps, normal |-> Black, ok |-> TRUE]

\* ------------------------------------------------------------- list inputs

\* longest list handed to intersections()
MaxLen == 4

\* the t values of the tests of intersection.rs on one sphere, and two of
\* them on a second sphere
ListElems ==
    { Intersection_new(F(t), 1) : t \in {-3, -2, -1, 0, 2, 5, 7} } \cup
    { Intersection_new(F(t), 2) : t \in {-1, 2} }

ListInputs == UNION { [1..n -> ListElems] : n \in 0..MaxLen }

NoListResult == [op |-> "none", out |-> <<>>, hit |-> 0]

NoResult == [op |-> "none", row |-> 0, col |-> 0, val |-> F(0), out |-> from_vector(0, <<>>), ok |-> TRUE]

\* ---------------------------------------------------------- matrix actions

worldVars == <<world, ray, wres>>
listVars == <<xs, lres>>
matrixVars == <<matrix, mres>>
callVars == <<args, res>>
canvasVars == <<canvas, cres, written>>

\* nothing was written, and no call was made on the canvas
NoCanvas ==
    /\ canvas = Canvas_new(0, 0)
    /\ cres = NoCanvasResult
    /\ written = [at |-> <<>>, inrange |-> TRUE]

NoArgs == <<>>

NoCall == [op |-> "none", out |-> <<>>]

CallDet ==
    /\ mres.op = "none"
    /\ mres' = [NoResult EXCEPT !.op = "det", !.val = det(matrix)]
    /\ UNCHANGED <<matrix, worldVars, listVars, callVars, canvasVars>>

CallMinor(row, col) ==
    /\ mres.op = "none"
    /\ matrix.dim >= 3
    /\ mres' = [NoResult EXCEPT !.op = "minor", !.row = row, !.col = col,
                                !.val = minor(matrix, row, col)]
    /\ UNCHANGED <<matrix, worldVars, listVars, callVars, canvasVars>>

CallCofactor(row, col) ==
    /\ mres.op = "none"
    /\ matrix.dim >= 3
    /\ mres' = [NoResult EXCEPT !.op = "cofactor", !.row = row, !.col = col,
                                !.val = cofactor(matrix, row, col)]
    /\ UNCHANGED <<matrix, worldVars, listVars, callVars, canvasVars>>

CallInverse ==
    /\ mres.op = "none"
    /\ matrix.dim >= 3
    /\ Abs(det(matrix)[1]) <= MaxDet
    /\ IF inverse_pre(matrix)
       THEN mres' = [NoResult EXCEPT !.op = "inverse", !.out = inverse(matrix)]
       ELSE mres' = [NoResult EXCEPT !.op = "inverse", !.ok = FALSE]
    /\ UNCHANGED <<matrix, worldVars, listVars, callVars, canvasVars>>

\* Matrix::from_vector(d, e) on one of the input vectors
InitMatrix ==
    /\ \E e \in InputVectors : matrix = from_vector(DimOf(e), Ints(e))
    /\ mres = NoResult
    /\ world = World_new /\ ray = Ray_new(point(F(0), F(0), F(0)), vector(F(0), F(0), F(1)))
    /\ wres = NoWorldResult
    /\ xs = <<>> /\ lres = NoListResult
    /\ args = NoArgs /\ res = NoCall
    /\ NoCanvas

NextMatrix ==
    \/ CallDet
    \/ \E row \in 0..(matrix.dim - 1), col \in 0..(matrix.dim - 1) : CallMinor(row, col)
    \/ \E row \in 0..(matrix.dim - 1), col \in 0..(matrix.dim - 1) : CallCofactor(row, col)
    \/ CallInverse

SpecMatrix == InitMatrix /\ [][NextMatrix]_vars

\* ------------------------------------------------------------ list actions

CallIntersections ==
    /\ lres.op = "none"
    /\ lres' = [NoListResult EXCEPT !.op = "intersections", !.out = intersections(xs)]
    /\ UNCHANGED <<xs, matrixVars, worldVars, callVars, canvasVars>>

\* hit() on the list that intersections() returned
CallHit ==
    /\ lres.op = "intersections"
    /\ lres' = [lres EXCEPT !.op = "hit", !.hit = hit(lres.out)]
    /\ UNCHANGED <<xs, matrixVars, worldVars, callVars, canvasVars>>

InitList ==
    /\ xs \in ListInputs
    /\ lres = NoListResult
    /\ matrix = identity /\ mres = NoResult
    /\ world = World_new /\ ray = Ray_new(point(F(0), F(0), F(0)), vector(F(0), F(0), F(1)))
    /\ wres = NoWorldResult
    /\ args = NoArgs /\ res = NoCall
    /\ NoCanvas

NextList ==
    \/ CallIntersections
    \/ CallHit

SpecList == InitList /\ [][NextList]_vars

\* ------------------------------------------------ sphere and world actions

\* sphere.intersect(&ray) on the sphere world.objects[self]
CallSphereIntersect(self) ==
    /\ wres.op = "none"
    /\ Sphere_pre(self) => ExactIntersect(self, ray)
    /\ IF Sphere_pre(self)
       THEN wres' = [NoWorldResult EXCEPT !.op = "Sphere.intersect", !.self = self,
                                          !.xs = Sphere_intersect(self, ray)]
       ELSE wres' = [NoWorldResult EXCEPT !.op = "Sphere.intersect", !.self = self, !.ok = FALSE]
    /\ UNCHANGED <<world, ray, matrixVars, listVars, callVars, canvasVars>>

CallWorldIntersect ==
    /\ wres.op = "none"
    /\ (\A i \in 1..Len(world.objects) : Sphere_pre(i)) => ExactWorldIntersect(ray)
    /\ IF World_intersect_pre(ray)
       THEN wres' = [NoWorldResult EXCEPT !.op = "World.intersect", !.xs = World_intersect(ray)]
       ELSE wres' = [NoWorldResult EXCEPT !.op = "World.intersect", !.ok = FALSE]
    /\ UNCHANGED <<world, ray, matrixVars, listVars, callVars, canvasVars>>

\* sphere.normal_at(p) on the sphere world.objects[self]
CallNormalAt(self, p) ==
    /\ wres.op = "none"
    /\ Sphere_pre(self) => ExactNormalAt(self, p)
    /\ IF Sphere_pre(self)
       THEN wres' = [NoWorldResult EXCEPT !.op = "normal_at", !.self = self, !.arg = p,
                                          !.color = normal_at(self, p)]
       ELSE wres' = [NoWorldResult EXCEPT !.op = "normal_at", !.self = self, !.arg = p,
                                          !.ok = FALSE]
    /\ UNCHANGED <<world, ray, matrixVars, listVars, callVars, canvasVars>>

CallColorAt ==
    /\ wres.op = "none"
    /\ (\A i \in 1..Len(world.objects) : Sphere_pre(i)) => ExactColorAt(ray)
    /\ IF color_at_pre(ray)
       THEN wres' = [NoWorldResult EXCEPT !.op = "color_at", !.color = color_at(ray)]
       ELSE wres' = [NoWorldResult EXCEPT !.op = "color_at", !.ok = FALSE]
    /\ UNCHANGED <<world, ray, matrixVars, listVars, callVars, canvasVars>>

\* Intersection::new(t, &world.objects[o]).prepare_computations(&ray)
CallPrepareComputations(t, o) ==
    /\ wres.op = "none"
    /\ Sphere_pre(o) => ExactNormalAt(o, position(ray, t))
    /\ IF Sphere_pre(o)
       THEN wres' = [NoWorldResult EXCEPT
                        !.op = "prepare_computations", !.self = o,
                        !.isect = Intersection_new(t, o),
                        !.comps = prepare_computations(Intersection_new(t, o), ray),
                        !.normal = normal_at(o, position(ray, t))]
       ELSE wres' = [NoWorldResult EXCEPT !.op = "prepare_computations", !.self = o,
                                          !.isect = Intersection_new(t, o), !.ok = FALSE]
    /\ UNCHANGED <<world, ray, matrixVars, listVars, callVars, canvasVars>>

\* world.shade_hit(comps) on the computations prepared for an intersection
CallShadeHit(t, o) ==
    /\ wres.op = "none"
    /\ Sphere_pre(o)
    /\ ExactNormalAt(o, position(ray, t))
    /\ \E c \in {prepare_computations(Intersection_new(t, o), ray)} :
          /\ shade_hit_pre =>
                ExactLightning(world.objects[c.object].material, light_unwrap[1],
                               c.point, c.eyev, c.normalv)
          /\ IF shade_hit_pre
             THEN wres' = [NoWorldResult EXCEPT !.op = "shade_hit", !.self = o, !.comps = c,
                                                !.color = shade_hit(c)]
             ELSE wres' = [NoWorldResult EXCEPT !.op = "shade_hit", !.self = o, !.comps = c,
                                                !.ok = FALSE]
    /\ UNCHANGED <<world, ray, matrixVars, listVars, callVars, canvasVars>>

Init ==
    /\ world \in WorldInputs
    /\ ray \in RayInputs
    /\ wres = NoWorldResult
    /\ matrix = identity /\ mres = NoResult
    /\ xs = <<>> /\ lres = NoListResult
    /\ args = NoArgs /\ res = NoCall
    /\ NoCanvas

Next ==
    \/ \E self \in 1..Len(world.objects) : CallSphereIntersect(self)
    \/ \E self \in 1..Len(world.objects), p \in PointInputs : CallNormalAt(self, p)
    \/ CallWorldIntersect
    \/ CallColorAt
    \/ \E t \in TInputs, o \in 1..Len(world.objects) : CallPrepareComputations(t, o)
    \/ \E t \in TInputs, o \in 1..Len(world.objects) : CallShadeHit(t, o)

Spec == Init /\ [][Next]_vars

\* ------------------------------------------------------- reference values

\* the permutations of 1..n and their parity, for the Leibniz formula
Perms(n) == { p \in [1..n -> 1..n] : \A i, j \in 1..n : i # j => p[i] # p[j] }

Inversions(p) == Cardinality({ ij \in (DOMAIN p) \X (DOMAIN p) : ij[1] < ij[2] /\ p[ij[1]] > p[ij[2]] })

RECURSIVE SetToSeq(_)
SetToSeq(S) == IF S = {} THEN <<>> ELSE LET x == CHOOSE x \in S : TRUE IN <<x>> \o SetToSeq(S \ {x})

RECURSIVE FProd(_)
FProd(s) == IF s = <<>> THEN F(1) ELSE FMul(FProd(SubSeq(s, 1, Len(s) - 1)), s[Len(s)])

\* sum over the permutations p of sign(p) * prod_i m[i][p(i)]
Leibniz(m) ==
    LET ps == SetToSeq(Perms(m.dim))
        term(p) == LET pr == FProd([i \in 1..m.dim |-> at(m, i - 1, p[i] - 1)])
                   IN IF Inversions(p) % 2 = 0 THEN pr ELSE FNeg(pr)
    IN FSum([k \in 1..Len(ps) |-> term(ps[k])])

\* the cofactor with the checkerboard sign (-1)^(row+col)
Checkerboard(m, row, col) ==
    IF (row + col) % 2 = 0 THEN minor(m, row, col) ELSE FNeg(minor(m, row, col))

\* the adjugate of m divided by its determinant, from the Leibniz formula
AdjugateOverDet(m) ==
    LET d == m.dim
        c(row, col) == LET mn == Leibniz(submatrix(m, row, col))
                       IN IF (row + col) % 2 = 0 THEN mn ELSE FNeg(mn)
    IN from_vector(d, [i \in 1..(d * d) |-> FDiv(c((i - 1) % d, (i - 1) \div d), Leibniz(m))])

\* ------------------------------------------------------------------ claims

\* C1: for every matrix of dimension 3 or 4 and every row, col below the
\* dimension, cofactor(row, col) is minor(row, col) when row + col is even
\* and -minor(row, col) when it is odd.
C1_CofactorCheckerboard ==
    (mres.op = "cofactor" /\ matrix.dim \in {3, 4}) =>
        mres.val = Checkerboard(matrix, mres.row, mres.col)

\* C2: for every invertible 4x4 matrix M, inverse(M) is the transposed
\* matrix of checkerboard cofactors divided by det(M), M * inverse(M) is
\* the identity and inverse(inverse(M)) is M, within the tolerance of the
\* matrix equality.
C2_InverseRoundTrip ==
    (mres.op = "inverse" /\ mres.ok /\ matrix.dim = 4) =>
        /\ mres.out = AdjugateOverDet(matrix)
        /\ matrix_eq(mul(matrix, mres.out), identity)
        /\ inverse_pre(mres.out)
        /\ matrix_eq(inverse(mres.out), matrix)

\* C2 witness: a dense 4x4 matrix (no zero in its last row) was inverted
\* and the inverse has an entry that is not an integer
C2_Witness ==
    /\ mres.op = "inverse" /\ mres.ok /\ matrix.dim = 4
    /\ \A c \in 0..3 : at(matrix, 3, c) # F(0)
    /\ \E i \in 1..16 : mres.out.elems[i][2] > 1

\* C4: for every matrix of dimension 2, 3 or 4 with integer entries, det()
\* is the Leibniz determinant.
C4_DetIsLeibniz ==
    (mres.op = "det" /\ matrix.dim \in {2, 3, 4}) => mres.val = Leibniz(matrix)

\* C4 witness: det was called on a 4x4 matrix with a nonzero determinant
\* whose row 0 has no zero entry, so every cofactor of the row contributes
C4_Witness ==
    /\ mres.op = "det" /\ matrix.dim = 4 /\ mres.val # F(0)
    /\ \A c \in 0..3 : at(matrix, 0, c) # F(0)

\* ------------------------------------------------------- claims, continued

FiniteMatrix(m) == \A k \in 1..Len(m.elems) : IsFinite(m.elems[k])

\* C3: inverting a matrix whose determinant is 0 is an explicit error, so
\* Sphere.intersect and Sphere.normal_at on a sphere with a singular
\* transform fail; when they return, the inverse they worked with has
\* neither a NaN nor an infinite entry, and neither has a returned t.
C3_SingularInverseFails ==
    (wres.op \in {"Sphere.intersect", "normal_at"}) =>
        LET entry == TransformTable[world.objects[wres.self].transform]
        IN /\ entry.det = F(0) => ~wres.ok
           /\ wres.ok => FiniteMatrix(entry.inv)
           /\ \A k \in 1..Len(wres.xs) : IsFinite(wres.xs[k].t)

\* C3 witness: intersect was called on a sphere whose transform is singular
C3_Witness ==
    /\ wres.op = "Sphere.intersect" /\ ~wres.ok
    /\ TransformTable[world.objects[wres.self].transform].det = F(0)

\* C5: for every sphere and every ray with a nonzero direction,
\* Sphere.intersect returns no intersection when the discriminant is
\* negative and otherwise exactly two, t1 <= t2, both referencing the
\* sphere; a discriminant of 0 gives two records with the same t.
C5_TwoRootsOrNone ==
    [][(wres'.op = "Sphere.intersect" /\ wres'.ok) =>
        LET disc == discriminant(wres'.self, ray)
            out == wres'.xs
        IN IF FLt(disc, F(0)) THEN out = <<>>
           ELSE /\ Len(out) = 2
                /\ FLe(out[1].t, out[2].t)
                /\ out[1].object = wres'.self /\ out[2].object = wres'.self
                /\ (disc = F(0) => out[1].t = out[2].t)]_vars

\* C5 witness: a tangent ray gave two records with the same t
C5_Witness ==
    /\ wres.op = "Sphere.intersect" /\ wres.ok
    /\ Len(wres.xs) = 2 /\ wres.xs[1].t = wres.xs[2].t

ZRay(z0y, z0z) == Ray_new(point(F(0), F(z0y), F(z0z)), vector(F(0), F(0), F(1)))

TsOf(list) == [k \in 1..Len(list) |-> list[k].t]

\* squared distance of the point of the ray at t from the world origin
Dist2(r, t) ==
    LET p == position(r, t)
    IN FAdd(FAdd(FMul(p[1], p[1]), FMul(p[2], p[2])), FMul(p[3], p[3]))

\* the line of the ray meets the unit sphere: (o.d)^2 >= |d|^2 (|o|^2 - 1)
MeetsUnitSphere(r) ==
    LET o == vector(r.origin[1], r.origin[2], r.origin[3])
        od == dot(o, r.direction)
    IN FGe(FMul(od, od), FMul(dot(r.direction, r.direction), FSub(dot(o, o), F(1))))

\* C6: on a sphere with the identity transform every returned t is a point
\* of the ray at distance 1 from the centre, the result is empty exactly
\* when the line of the ray misses the sphere, and the five rays of the
\* specification give [4,6], [5,5], [], [-1,1] and [-6,-4].
C6_UnitSphereRoots ==
    (wres.op = "Sphere.intersect" /\ wres.ok
     /\ world.objects[wres.self].transform = identity) =>
        /\ \A k \in 1..Len(wres.xs) : Dist2(ray, wres.xs[k].t) = F(1)
        /\ (wres.xs = <<>>) <=> ~MeetsUnitSphere(ray)
        /\ ray = ZRay(0, -5) => TsOf(wres.xs) = <<F(4), F(6)>>
        /\ ray = ZRay(1, -5) => TsOf(wres.xs) = <<F(5), F(5)>>
        /\ ray = ZRay(2, -5) => TsOf(wres.xs) = <<>>
        /\ ray = ZRay(0, 0) => TsOf(wres.xs) = <<F(-1), F(1)>>
        /\ ray = ZRay(0, 5) => TsOf(wres.xs) = <<F(-6), F(-4)>>

\* C6 witness: the ray from inside the unit sphere gave [-1, 1]
C6_Witness ==
    /\ wres.op = "Sphere.intersect" /\ wres.ok
    /\ world.objects[wres.self].transform = identity
    /\ ray = ZRay(0, 0) /\ TsOf(wres.xs) = <<F(-1), F(1)>>

Ascending(list) == \A i \in 1..(Len(list) - 1) : FLe(list[i].t, list[i + 1].t)

\* C7: on a list sorted ascending by t, hit returns the element with the
\* smallest t among those with t >= 0 (0 included) and None exactly when
\* there is none; the list sorted from [5,7,-3,2] gives 2, [-2,-1] None.
C7_HitIsLowestNonNegative ==
    (lres.op = "hit" /\ Ascending(lres.out)) =>
        /\ IF \E i \in 1..Len(lres.out) : lres.out[i].t[1] >= 0
           THEN /\ lres.hit \in 1..Len(lres.out)
                /\ lres.out[lres.hit].t[1] >= 0
                /\ \A j \in 1..Len(lres.out) :
                      lres.out[j].t[1] >= 0 => FLe(lres.out[lres.hit].t, lres.out[j].t)
           ELSE lres.hit = 0
        /\ TsOf(xs) = <<F(5), F(7), F(-3), F(2)>> => lres.out[lres.hit].t = F(2)
        /\ TsOf(xs) = <<F(-2), F(-1)>> => lres.hit = 0

\* C7 witness: hit chose an intersection with t = 0 that follows a
\* negative one
C7_Witness ==
    /\ lres.op = "hit" /\ lres.hit > 1
    /\ lres.out[lres.hit].t = F(0)

WithT(list, t) == SelectSeq(list, LAMBDA e : e.t = t)

\* C8: intersections(xs) is a permutation of xs in ascending order of t,
\* elements with the same t keep their order, and xs is not modified.
C8_StableSortedPermutation ==
    [][lres'.op = "intersections" =>
        /\ xs' = xs
        /\ Len(lres'.out) = Len(xs)
        /\ Ascending(lres'.out)
        /\ \A k \in 1..Len(xs) : WithT(lres'.out, xs[k].t) = WithT(xs, xs[k].t)]_vars

\* C8 witness: two equal t values on different spheres were given with the
\* second sphere first, after a larger t
C8_Witness ==
    /\ lres.op = "intersections" /\ Len(xs) = 3
    /\ xs[1].t = F(5) /\ xs[2] = Intersection_new(F(2), 2) /\ xs[3] = Intersection_new(F(2), 1)

OfObject(list, o) == SelectSeq(list, LAMBDA e : e.object = o)

\* C9: World.intersect returns the union of the intersections of its
\* spheres: every sphere's records, referencing that sphere, and nothing
\* else, in ascending order of t.
C9_WorldIntersectIsSortedUnion ==
    [][(wres'.op = "World.intersect" /\ wres'.ok) =>
        /\ \A i \in 1..Len(world.objects) :
              /\ OfObject(wres'.xs, i) = Sphere_intersect(i, ray)
              /\ \A k \in 1..Len(Sphere_intersect(i, ray)) : Sphere_intersect(i, ray)[k].object = i
        /\ \A k \in 1..Len(wres'.xs) : wres'.xs[k].object \in 1..Len(world.objects)
        /\ Ascending(wres'.xs)]_vars

\* C9 witness: two spheres were hit and their intersections interleave
C9_Witness ==
    /\ wres.op = "World.intersect" /\ wres.ok
    /\ Len(wres.xs) = 4
    /\ wres.xs[1].object # wres.xs[2].object
    /\ wres.xs[1].object = wres.xs[4].object

\* C10: color_at returns black, and does not fail, whenever no sphere has
\* an intersection with t >= 0, also in a world without a light.
C10_NoHitIsBlack ==
    [][(wres'.op = "color_at"
        /\ \A i \in 1..Len(world.objects) :
              /\ Sphere_pre(i)
              /\ \A k \in 1..Len(Sphere_intersect(i, ray)) :
                    FLt(Sphere_intersect(i, ray)[k].t, F(0)))
       => (wres'.ok /\ wres'.color = color(F(0), F(0), F(0)))]_vars

\* C10 witness: color_at in a world without a light whose only sphere is
\* behind the ray
C10_Witness ==
    /\ wres.op = "color_at" /\ wres.ok /\ wres.color = color(F(0), F(0), F(0))
    /\ world.light = <<>> /\ world.objects = <<Sphere_new>>
    /\ ray = ZRay(0, 5)

\* ------------------------------------------------------------------ shading

\* the intersections of every sphere of the world with the ray, as a set
AllIntersections ==
    UNION { { Sphere_intersect(k, ray)[j] : j \in 1..Len(Sphere_intersect(k, ray)) } :
            k \in 1..Len(world.objects) }

\* those with the smallest t among the ones with t >= 0
LowestNonNegative ==
    Let({ i \in AllIntersections : FGe(i.t, F(0)) }, LAMBDA front :
        { i \in front : \A j \in front : FLe(i.t, j.t) })

AllInvertible ==
    \A k \in 1..Len(world.objects) : TransformTable[world.objects[k].transform].det # F(0)

\* C11: when some intersection has t >= 0, color_at(ray) is
\* shade_hit(prepare_computations(i, ray)) for the intersection i with the
\* smallest t >= 0 over all spheres, never one behind the origin of the ray.
C11_ColorAtShadesLowestHit ==
    [][(wres'.op = "color_at" /\ wres'.ok /\ LowestNonNegative # {}) =>
        \E i \in LowestNonNegative :
            wres'.color = shade_hit(prepare_computations(i, ray))]_vars

\* C11 witness: a ray from inside two nested spheres, which both have an
\* intersection behind the origin, was shaded
C11_Witness ==
    /\ wres.op = "color_at" /\ wres.ok /\ wres.color # color(F(0), F(0), F(0))
    /\ Len(world.objects) = 2
    /\ world.objects[1].transform = scaling(F(2), F(2), F(2))
    /\ world.objects[2].transform = identity
    /\ ray = ZRay(0, 0)

\* C12: shade_hit in a world without a light fails, and color_at in a world
\* without a light fails exactly when the ray has a hit.
C12_NoLightFails ==
    /\ (wres.op = "shade_hit" /\ world.light = <<>>) => ~wres.ok
    /\ (wres.op = "color_at" /\ world.light = <<>> /\ AllInvertible) =>
           (~wres.ok <=> LowestNonNegative # {})

\* C12 witness: shade_hit was called in a world without a light
C12_Witness ==
    /\ wres.op = "shade_hit" /\ world.light = <<>> /\ ~wres.ok
    /\ wres.comps.t = F(4)

\* the centre of the sphere world.objects[o] in world space
Centre(o) == tuple_prod(world.objects[o].transform, point(F(0), F(0), F(0)))

\* what C13 says of the fields of the computations prepared for i, the sign
\* of normalv . eyev apart
PreparedFields(i, c, n) ==
    /\ c.t = i.t
    /\ c.object = i.object
    /\ c.point = TAdd(ray.origin, TMul(ray.direction, i.t))
    /\ c.eyev = TNeg(ray.direction)
    /\ c.inside <=> FLt(dot(n, c.eyev), F(0))
    /\ c.normalv = IF c.inside THEN TNeg(n) ELSE n

\* C13 as stated: for every ray and intersection, prepare_computations
\* returns t, object, point = r.position(t), eyev = -direction and a normalv
\* with normalv . eyev >= 0; inside is true exactly when normal_at(point) .
\* eyev < 0, and normalv is then the negated normal, otherwise the normal.
C13_PreparedEverywhere ==
    (wres.op = "prepare_computations" /\ wres.ok) =>
        /\ PreparedFields(wres.isect, wres.comps, wres.normal)
        /\ FGe(dot(wres.comps.normalv, wres.comps.eyev), F(0))

\* C13 amended: the same, with normalv . eyev >= 0 only where
\* normal_at(point) . eyev is a number; at the centre of the sphere normal_at
\* is NaN in every component, and so is normalv . eyev.
C13_PreparedWhereNormalIsNumber ==
    (wres.op = "prepare_computations" /\ wres.ok) =>
        /\ PreparedFields(wres.isect, wres.comps, wres.normal)
        /\ ~IsNaN(dot(wres.normal, wres.comps.eyev)) =>
               FGe(dot(wres.comps.normalv, wres.comps.eyev), F(0))

\* C13 witness: computations prepared for an intersection seen from inside
\* the sphere, off its centre
C13_Witness ==
    /\ wres.op = "prepare_computations" /\ wres.ok /\ wres.comps.inside
    /\ wres.comps.normalv = vector(F(0), F(0), F(-1))
    /\ wres.comps.point # Centre(wres.isect.object)

\* the normal of C16: inverse(transform) transposed, applied to
\* inverse(transform) * p - origin, with w set to 0, normalized
NormalOf(transform, p) ==
    Let(TransformTable[transform].inv, LAMBDA inv :
    Let(TSub(tuple_prod(inv, p), point(F(0), F(0), F(0))), LAMBDA n :
    Let(tuple_prod(transpose(inv), n), LAMBDA wn :
        normalize(<<wn[1], wn[2], wn[3], F(0)>>))))

\* C16: on a sphere with an invertible transform and a world point other
\* than its centre, normal_at returns a vector (w = 0) of magnitude 1, the
\* normalized inverse-transpose image of inverse(transform) * point - origin
\* with w set to 0; with the identity transform it is point - origin,
\* normalized.
C16_NormalIsUnitVector ==
    (/\ wres.op = "normal_at" /\ wres.ok
     /\ TransformTable[world.objects[wres.self].transform].det # F(0)
     /\ wres.arg # Centre(wres.self)) =>
        /\ wres.color[4] = F(0)
        /\ FSum(<<FMul(wres.color[1], wres.color[1]), FMul(wres.color[2], wres.color[2]),
                  FMul(wres.color[3], wres.color[3])>>) = F(1)
        /\ wres.color = NormalOf(world.objects[wres.self].transform, wres.arg)
        /\ world.objects[wres.self].transform = identity =>
               wres.color = normalize(TSub(wres.arg, point(F(0), F(0), F(0))))

\* C16 witness: the normal of a translated sphere at a point of its surface
C16_Witness ==
    /\ wres.op = "normal_at" /\ wres.ok
    /\ world.objects[wres.self].transform = translation(F(0), F(0), F(-1))
    /\ wres.arg = point(F(0), F(0), F(-2))
    /\ wres.color = vector(F(0), F(0), F(-1))

\* ----------------------------------------------------------------- lighting

\* the state of the variables that a specification does not use
Idle ==
    /\ matrix = identity /\ mres = NoResult
    /\ world = World_new /\ ray = Ray_new(point(F(0), F(0), F(0)), vector(F(0), F(0), F(1)))
    /\ wres = NoWorldResult
    /\ xs = <<>> /\ lres = NoListResult
    /\ NoCanvas

MaterialInputs ==
    { Material_new, DefaultMaterial,
      [Material_new EXCEPT !.ambient = Q(1, 5), !.shininess = F(2)] }

LightningInputs ==
    [material : MaterialInputs,
     light : { PointLight_new(p, i) :
                 p \in { point(F(0), F(0), F(-10)), point(F(0), F(0), F(10)),
                         point(F(0), F(3), F(-4)), point(F(0), F(4), F(3)) },
                 i \in { color(F(1), F(1), F(1)), color(Q(1, 2), F(1), Q(1, 4)) } },
     point : { point(F(0), F(0), F(0)) },
     eyev : { vector(F(0), F(0), F(-1)), vector(F(0), F(0), F(1)),
              vector(F(0), Q(3, 5), Q(-4, 5)), vector(F(0), Q(-3, 5), Q(-4, 5)),
              vector(F(0), Q(-4, 5), Q(-3, 5)) },
     normalv : { vector(F(0), F(0), F(-1)), vector(F(0), F(0), F(1)),
                 vector(F(0), Q(3, 5), Q(-4, 5)) }]

\* material.lightning(light, point, eyev, normalv)
CallLightning ==
    /\ res.op = "none"
    /\ ExactLightning(args.material, args.light, args.point, args.eyev, args.normalv)
    /\ res' = [NoCall EXCEPT !.op = "lightning",
                             !.out = lightning(args.material, args.light, args.point,
                                               args.eyev, args.normalv)]
    /\ UNCHANGED <<args, matrixVars, worldVars, listVars, canvasVars>>

InitLightning ==
    /\ args \in LightningInputs
    /\ res = NoCall
    /\ Idle

NextLightning == CallLightning

SpecLightning == InitLightning /\ [][NextLightning]_vars

\* the terms of the sum, from the arguments of the call
Effective == hadamard(args.material.color, args.light.intensity)

Lightv == normalize(TSub(args.light.position, args.point))

LightDotNormal == dot(Lightv, args.normalv)

ReflectDotEye == dot(reflect(TNeg(Lightv), args.normalv), args.eyev)

AmbientTerm == TMul(Effective, args.material.ambient)

DiffuseTerm ==
    IF FLt(LightDotNormal, F(0)) THEN Black
    ELSE TMul(TMul(Effective, args.material.diffuse), LightDotNormal)

SpecularTerm ==
    IF FLe(ReflectDotEye, F(0)) THEN Black
    ELSE TMul(TMul(args.light.intensity, args.material.specular),
              powf(ReflectDotEye, args.material.shininess))

\* the power in the specular term is an exact fraction
SpecularExact ==
    IF FLe(ReflectDotEye, F(0)) THEN TRUE
    ELSE ExactPow(ReflectDotEye, args.material.shininess)

\* C14: with the light on the far side of the surface (lightv . normalv < 0)
\* lightning returns exactly the ambient term, (color hadamard intensity) *
\* ambient; the default material with the light at (0, 0, 10) and the normal
\* (0, 0, -1) gives (0.1, 0.1, 0.1).
C14_FarSideIsAmbient ==
    (res.op = "lightning" /\ FLt(LightDotNormal, F(0))) =>
        /\ res.out = AmbientTerm
        /\ (/\ args.material = Material_new
            /\ args.light = PointLight_new(point(F(0), F(0), F(10)), color(F(1), F(1), F(1)))
            /\ args.normalv = vector(F(0), F(0), F(-1))) =>
               res.out = color(Q(1, 10), Q(1, 10), Q(1, 10))

\* C14 witness: the default material lit from behind the surface
C14_Witness ==
    /\ res.op = "lightning"
    /\ args.material = Material_new
    /\ args.light = PointLight_new(point(F(0), F(0), F(10)), color(F(1), F(1), F(1)))
    /\ args.eyev = vector(F(0), F(0), F(-1))
    /\ args.normalv = vector(F(0), F(0), F(-1))
    /\ res.out = color(Q(1, 10), Q(1, 10), Q(1, 10))

\* what C15 says of the case where lightv, normal and eye are one unit vector
SameVectorCase ==
    (Lightv = args.normalv /\ args.normalv = args.eyev) =>
        /\ res.out = TAdd(TMul(Effective, FAdd(args.material.ambient, args.material.diffuse)),
                          TMul(args.light.intensity, args.material.specular))
        /\ (/\ args.material = Material_new
            /\ args.light.intensity = color(F(1), F(1), F(1))) =>
               res.out = color(Q(19, 10), Q(19, 10), Q(19, 10))

\* C15 as stated: lightning returns ambient + diffuse + specular, not
\* clamped, with specular black when reflect(-lightv, normal) . eye <= 0 and
\* intensity * specular * (reflect . eye)^shininess otherwise; when lightv,
\* normal and eye are one unit vector that is effective * (ambient + diffuse)
\* + intensity * specular, (1.9, 1.9, 1.9) for the default material and a
\* white light.
C15_SumWithSpecularByReflection ==
    (res.op = "lightning" /\ SpecularExact) =>
        /\ res.out = TAdd(TAdd(AmbientTerm, DiffuseTerm), SpecularTerm)
        /\ SameVectorCase

\* C15 amended: the same, for a light that is not on the far side of the
\* surface; on the far side the specular term is black whatever the
\* reflection is.
C15_SumOnNearSide ==
    (res.op = "lightning" /\ ~FLt(LightDotNormal, F(0))) =>
        /\ res.out = TAdd(TAdd(AmbientTerm, DiffuseTerm), SpecularTerm)
        /\ SameVectorCase

\* C15 witness: the eye between the light and the surface, on the normal
C15_Witness ==
    /\ res.op = "lightning"
    /\ args.material = Material_new
    /\ args.light = PointLight_new(point(F(0), F(0), F(-10)), color(F(1), F(1), F(1)))
    /\ args.eyev = vector(F(0), F(0), F(-1))
    /\ args.normalv = vector(F(0), F(0), F(-1))
    /\ res.out = color(Q(19, 10), Q(19, 10), Q(19, 10))

\* --------------------------------------------------------- tuple arithmetic

TupleInputs ==
    { <<c[1], c[2], c[3], w>> :
        c \in { <<F(3), F(-2), F(5)>>, <<F(-2), F(3), F(1)>>, <<F(0), F(0), F(0)>>,
                <<Q(1, 2), Q(-1, 4), F(3)>>, <<F(0), F(3), F(-4)>>, <<F(2), F(-3), F(6)>>,
                <<Q(3, 2), F(0), F(2)>> },
        w \in { F(0), F(1) } }

ScalarInputs == { F(-2), F(0), Q(1, 2), F(3) }

\* a + b
CallAdd ==
    /\ res.op = "none"
    /\ res' = [NoCall EXCEPT !.op = "add", !.out = TAdd(args.a, args.b)]
    /\ UNCHANGED <<args, matrixVars, worldVars, listVars, canvasVars>>

\* a - b
CallSub ==
    /\ res.op = "none"
    /\ res' = [NoCall EXCEPT !.op = "sub", !.out = TSub(args.a, args.b)]
    /\ UNCHANGED <<args, matrixVars, worldVars, listVars, canvasVars>>

\* -a
CallNeg ==
    /\ res.op = "none"
    /\ res' = [NoCall EXCEPT !.op = "neg", !.out = TNeg(args.a)]
    /\ UNCHANGED <<args, matrixVars, worldVars, listVars, canvasVars>>

\* a * k
CallMul ==
    /\ res.op = "none"
    /\ res' = [NoCall EXCEPT !.op = "mul", !.out = TMul(args.a, args.k)]
    /\ UNCHANGED <<args, matrixVars, worldVars, listVars, canvasVars>>

\* a / k
CallDiv ==
    /\ res.op = "none"
    /\ res' = [NoCall EXCEPT !.op = "div", !.out = TDiv(args.a, args.k)]
    /\ UNCHANGED <<args, matrixVars, worldVars, listVars, canvasVars>>

\* Ray::new(a, b).position(k)
CallPosition ==
    /\ res.op = "none"
    /\ res' = [NoCall EXCEPT !.op = "position", !.out = position(Ray_new(args.a, args.b), args.k)]
    /\ UNCHANGED <<args, matrixVars, worldVars, listVars, canvasVars>>

\* a.normalize()
CallNormalize ==
    /\ res.op = "none"
    /\ ExactMagnitude(args.a)
    /\ res' = [NoCall EXCEPT !.op = "normalize", !.out = normalize(args.a)]
    /\ UNCHANGED <<args, matrixVars, worldVars, listVars, canvasVars>>

InitTuple ==
    /\ args \in [a : TupleInputs, b : TupleInputs, k : ScalarInputs]
    /\ res = NoCall
    /\ Idle

NextTuple ==
    \/ CallAdd
    \/ CallSub
    \/ CallNeg
    \/ CallMul
    \/ CallDiv
    \/ CallPosition
    \/ CallNormalize

SpecTuple == InitTuple /\ [][NextTuple]_vars

IsPoint(a) == a[4] = F(1)

IsVector(a) == a[4] = F(0)

\* the result has, in each of its four components, what the operation gives
\* for that component of the operands
Componentwise ==
    \A i \in 1..4 :
        /\ res.op = "add" => res.out[i] = FAdd(args.a[i], args.b[i])
        /\ res.op = "sub" => res.out[i] = FSub(args.a[i], args.b[i])
        /\ res.op = "neg" => res.out[i] = FNeg(args.a[i])
        /\ res.op = "mul" => res.out[i] = FMul(args.a[i], args.k)
        /\ res.op = "div" => res.out[i] = FDiv(args.a[i], args.k)
        /\ res.op = "position" =>
               res.out[i] = FAdd(args.a[i], FMul(args.b[i], args.k))

\* C17: +, -, negation, * and / by a scalar act on all four components, so
\* point - point is a vector, point + vector and point - vector are points,
\* vector + vector and vector - vector are vectors, and position(t) of a ray
\* with a point as origin and a vector as direction is a point for every t,
\* negative t included.
C17_WFollowsArithmetic ==
    /\ Componentwise
    /\ (res.op = "sub" /\ IsPoint(args.a) /\ IsPoint(args.b)) => IsVector(res.out)
    /\ (res.op \in {"add", "sub"} /\ IsPoint(args.a) /\ IsVector(args.b)) => IsPoint(res.out)
    /\ (res.op \in {"add", "sub"} /\ IsVector(args.a) /\ IsVector(args.b)) => IsVector(res.out)
    /\ (res.op = "position" /\ IsPoint(args.a) /\ IsVector(args.b)) => IsPoint(res.out)

\* C17 witness: a point subtracted from a point
C17_Witness ==
    /\ res.op = "sub"
    /\ args.a = point(F(3), F(-2), F(5)) /\ args.b = point(F(-2), F(3), F(1))
    /\ res.out = vector(F(5), F(-5), F(4))

\* ---------------------------------------------------------- transformations

\* a quarter turn about the x axis: rotation_x with cos = 0 and sin = 1
QuarterTurnX ==
    from_vector(4, <<F(1), F(0), F(0), F(0),
                     F(0), F(0), F(-1), F(0),
                     F(0), F(1), F(0), F(0),
                     F(0), F(0), F(0), F(1)>>)

\* a matrix that is no affine transformation
General4 ==
    from_vector(4, <<F(1), F(2), F(3), F(4),
                     F(2), F(4), F(4), F(2),
                     F(8), F(6), F(4), F(1),
                     F(0), F(0), F(1), F(-1)>>)

MatrixInputs ==
    { translation(F(1), F(-2), F(3)), translation(F(5), Q(1, 2), F(-7)),
      scaling(F(2), F(3), F(4)), QuarterTurnX, General4 }

PInputs ==
    { point(F(1), F(0), F(1)), point(F(-3), F(4), F(5)), vector(F(-3), F(4), F(5)),
      <<F(1), F(2), F(3), F(2)>> }

DInputs == { vector(F(0), F(1), F(0)), vector(F(-3), F(4), Q(1, 2)) }

\* Ray::new(p, d).transform(&A)
CallRayTransform ==
    /\ res.op = "none"
    /\ tuple_prod_pre(args.A)
    /\ res' = [NoCall EXCEPT !.op = "Ray.transform",
                             !.out = Ray_transform(Ray_new(args.p, args.d), args.A)]
    /\ UNCHANGED <<args, matrixVars, worldVars, listVars, canvasVars>>

\* (A * B).tuple_prod(p)
CallProduct2 ==
    /\ res.op = "none"
    /\ mul_pre(args.A, args.B) /\ tuple_prod_pre(mul(args.A, args.B))
    /\ res' = [NoCall EXCEPT !.op = "product2", !.out = tuple_prod(mul(args.A, args.B), args.p)]
    /\ UNCHANGED <<args, matrixVars, worldVars, listVars, canvasVars>>

\* (C * B * A).tuple_prod(p)
CallProduct3 ==
    /\ res.op = "none"
    /\ mul_pre(args.C, args.B) /\ mul_pre(mul(args.C, args.B), args.A)
    /\ tuple_prod_pre(mul(mul(args.C, args.B), args.A))
    /\ res' = [NoCall EXCEPT !.op = "product3",
                             !.out = tuple_prod(mul(mul(args.C, args.B), args.A), args.p)]
    /\ UNCHANGED <<args, matrixVars, worldVars, listVars, canvasVars>>

InitTransform ==
    /\ args \in [A : MatrixInputs, B : MatrixInputs, C : MatrixInputs, p : PInputs, d : DInputs]
    /\ res = NoCall
    /\ Idle

NextTransform ==
    \/ CallRayTransform
    \/ CallProduct2
    \/ CallProduct3

SpecTransform == InitTransform /\ [][NextTransform]_vars

\* the amounts in the last column of a matrix
AmountsOf(m) == <<at(m, 0, 3), at(m, 1, 3), at(m, 2, 3)>>

IsTranslation(m) == m = translation(at(m, 0, 3), at(m, 1, 3), at(m, 2, 3))

\* the tuple a moved by the amounts d, its w left as it is
Moved(a, d) == <<FAdd(a[1], d[1]), FAdd(a[2], d[2]), FAdd(a[3], d[3]), a[4]>>

\* C18: a translation leaves every vector (w = 0) unchanged, so
\* Ray.transform by a translation moves the origin by the amounts of the
\* translation and leaves the direction as it is.
C18_TranslationKeepsDirection ==
    (res.op = "Ray.transform" /\ IsTranslation(args.A)) =>
        /\ res.out.direction = args.d
        /\ IsPoint(args.p) => res.out.origin = Moved(args.p, AmountsOf(args.A))
        /\ IsVector(args.p) => res.out.origin = args.p

\* C18 witness: a ray moved by translation(1, -2, 3)
C18_Witness ==
    /\ res.op = "Ray.transform"
    /\ args.A = translation(F(1), F(-2), F(3))
    /\ args.p = point(F(-3), F(4), F(5))
    /\ args.d = vector(F(-3), F(4), Q(1, 2))
    /\ res.out = Ray_new(point(F(-2), F(2), F(8)), vector(F(-3), F(4), Q(1, 2)))

\* C19: (C * B * A).tuple_prod(p) is C.tuple_prod(B.tuple_prod(A.tuple_prod(p)))
\* for all 4x4 matrices A, B, C and every tuple p: A is applied first, then
\* B, then C.
C19_ProductAppliesRightmostFirst ==
    res.op = "product3" =>
        res.out = tuple_prod(args.C, tuple_prod(args.B, tuple_prod(args.A, args.p)))

\* C19 witness: a chain of a quarter turn, a scaling and a translation whose
\* result changes when the first and the last factor change places
C19_Witness ==
    /\ res.op = "product3"
    /\ args.A = QuarterTurnX /\ args.B = scaling(F(2), F(3), F(4))
    /\ args.C = translation(F(1), F(-2), F(3))
    /\ args.p = point(F(1), F(0), F(1))
    /\ res.out = point(F(3), F(-5), F(3))
    /\ res.out # tuple_prod(mul(mul(args.A, args.B), args.C), args.p)

\* C20: (translation(a) * translation(b)).tuple_prod(p) is
\* translation(a + b).tuple_prod(p) for every point p: p moved by a + b, w
\* still 1.
C20_TranslationsAdd ==
    (res.op = "product2" /\ IsTranslation(args.A) /\ IsTranslation(args.B) /\ IsPoint(args.p)) =>
        /\ res.out = tuple_prod(translation(FAdd(at(args.A, 0, 3), at(args.B, 0, 3)),
                                            FAdd(at(args.A, 1, 3), at(args.B, 1, 3)),
                                            FAdd(at(args.A, 2, 3), at(args.B, 2, 3))), args.p)
        /\ res.out = Moved(Moved(args.p, AmountsOf(args.A)), AmountsOf(args.B))
        /\ IsPoint(res.out)

\* C20 witness: translation(1, -2, 3) * translation(5, 1/2, -7) on a point
C20_Witness ==
    /\ res.op = "product2"
    /\ args.A = translation(F(1), F(-2), F(3))
    /\ args.B = translation(F(5), Q(1, 2), F(-7))
    /\ args.p = point(F(-3), F(4), F(5))
    /\ res.out = point(F(3), Q(5, 2), F(1))

\* -------------------------------------------------------- matrix operations

\* a call that returned v, and a call that panicked
Returned(op, v) == [op |-> op, ok |-> TRUE, out |-> v]

Failed(op) == [op |-> op, ok |-> FALSE, out |-> <<>>]

\* the matrices of the tests of matrix.rs
OpMatrices == { from_vector(DimOf(b), Ints(b)) : b \in BaseVectors }

OpInputs ==
    [M : OpMatrices, N : OpMatrices, d : 2..4, row : 0..3, col : 0..3,
     p : { point(F(1), F(2), F(3)), vector(F(-3), F(4), F(5)) }]

\* M.transpose()
CallTranspose ==
    /\ res.op = "none"
    /\ res' = Returned("transpose", transpose(args.M))
    /\ UNCHANGED <<args, matrixVars, worldVars, listVars, canvasVars>>

\* M.submatrix(row, col)
CallSubmatrix ==
    /\ res.op = "none"
    /\ res' = Returned("submatrix", submatrix(args.M, args.row, args.col))
    /\ UNCHANGED <<args, matrixVars, worldVars, listVars, canvasVars>>

\* M * N
CallMatMul ==
    /\ res.op = "none"
    /\ IF mul_pre(args.M, args.N)
       THEN res' = Returned("mul", mul(args.M, args.N))
       ELSE res' = Failed("mul")
    /\ UNCHANGED <<args, matrixVars, worldVars, listVars, canvasVars>>

\* M.tuple_prod(p)
CallTupleProd ==
    /\ res.op = "none"
    /\ IF tuple_prod_pre(args.M)
       THEN res' = Returned("tuple_prod", tuple_prod(args.M, args.p))
       ELSE res' = Failed("tuple_prod")
    /\ UNCHANGED <<args, matrixVars, worldVars, listVars, canvasVars>>

\* Matrix::from_vector(d, e) on the element vector e of M
CallFromVector ==
    /\ res.op = "none"
    /\ res' = Returned("from_vector", from_vector(args.d, args.M.elems))
    /\ UNCHANGED <<args, matrixVars, worldVars, listVars, canvasVars>>

InitOps ==
    /\ args \in OpInputs
    /\ res = NoCall
    /\ Idle

NextOps ==
    \/ CallTranspose
    \/ CallSubmatrix
    \/ CallMatMul
    \/ CallTupleProd
    \/ CallFromVector

SpecOps == InitOps /\ [][NextOps]_vars

\* C21: for every square matrix M of dimension 2, 3 or 4,
\* transpose(transpose(M)) == M and transpose(M).at(r, c) = M.at(c, r) for
\* all r, c; transpose(identity) == identity.
C21_TransposeIsInvolution ==
    res.op = "transpose" =>
        /\ matrix_eq(transpose(res.out), args.M)
        /\ res.out.dim = args.M.dim
        /\ \A r \in 0..(args.M.dim - 1), c \in 0..(args.M.dim - 1) :
               at(res.out, r, c) = at(args.M, c, r)
        /\ args.M = identity => matrix_eq(res.out, identity)

\* C21 witness: the transpose of a 4x4 matrix that is not symmetric
C21_Witness ==
    /\ res.op = "transpose"
    /\ args.M = from_vector(4, Ints(<<-2, -8, 3, 5, -3, 1, 7, 3, 1, 2, -9, 6, -6, 7, 7, -9>>))
    /\ res.out = from_vector(4, Ints(<<-2, -3, 1, -6, -8, 1, 2, 7, 3, 7, -9, 7, 5, 3, 6, -9>>))

\* C22: a product of two matrices of different dimension fails, and
\* tuple_prod on a matrix whose dimension is not 4 fails; neither yields a
\* matrix or a tuple.
C22_PreconditionsAbort ==
    /\ (res.op = "mul" /\ args.M.dim # args.N.dim) => (~res.ok /\ res.out = <<>>)
    /\ (res.op = "tuple_prod" /\ args.M.dim # 4) => (~res.ok /\ res.out = <<>>)

\* C22 witness: a 2x2 matrix multiplied by a 3x3 matrix
C22_Witness ==
    /\ res.op = "mul" /\ ~res.ok
    /\ args.M.dim = 2 /\ args.N.dim = 3

\* the cells of m outside row `row` and column `col`, row by row
CellsOutside(m, row, col) ==
    LET RECURSIVE cells(_)
        cells(i) ==
            IF i = m.dim * m.dim THEN <<>>
            ELSE (IF i \div m.dim = row \/ i % m.dim = col THEN <<>> ELSE <<m.elems[i + 1]>>)
                 \o cells(i + 1)
    IN cells(0)

\* C26: for a matrix of dimension 3 or 4 and row, col < dim,
\* submatrix(row, col) has dimension dim - 1 and exactly (dim - 1)^2
\* elements: the cells (r, c) with r # row and c # col in row-major order.
C26_SubmatrixDropsRowAndColumn ==
    (/\ res.op = "submatrix" /\ args.M.dim \in {3, 4}
     /\ args.row < args.M.dim /\ args.col < args.M.dim) =>
        /\ res.out.dim = args.M.dim - 1
        /\ Len(res.out.elems) = (args.M.dim - 1) * (args.M.dim - 1)
        /\ res.out.elems = CellsOutside(args.M, args.row, args.col)
        /\ \A r \in 0..(args.M.dim - 2), c \in 0..(args.M.dim - 2) :
               at(res.out, r, c) = at(args.M, IF r < args.row THEN r ELSE r + 1,
                                              IF c < args.col THEN c ELSE c + 1)

\* C26 witness: submatrix(2, 1) of the 4x4 matrix of the test
C26_Witness ==
    /\ res.op = "submatrix"
    /\ args.M = from_vector(4, Ints(<<-2, -8, 3, 5, -3, 1, 7, 3, 1, 2, -9, 6, -6, 7, 7, -9>>))
    /\ args.row = 2 /\ args.col = 1
    /\ res.out = from_vector(3, Ints(<<-2, 3, 5, -3, 7, 3, -6, 7, -9>>))

\* C28: every Matrix obtained from from_vector, identity, transpose,
\* submatrix, the product or a transform builder holds exactly dim * dim
\* elements, so that at(r, c) with r, c < dim reads the cell of row r and
\* column c and never fails.
C28_MatricesAreSquare ==
    (res.op \in {"from_vector", "transpose", "submatrix", "mul"} /\ res.ok) =>
        Len(res.out.elems) = res.out.dim * res.out.dim

\* |m - 1| < 1e-5
NearOne(m) ==
    Let(FSub(m, F(1)), LAMBDA diff :
        diff[2] # 0 /\ (diff[1] = 0 \/ (Abs(diff[1]) <= 20000 /\ Abs(diff[1]) * 100000 < diff[2])))

\* x^2 + y^2 + z^2 of a tuple
SumOfSquares(a) == FSum(<<FMul(a[1], a[1]), FMul(a[2], a[2]), FMul(a[3], a[3])>>)

\* what C23 says of normalize(v)
NormalizedAsClaimed ==
    /\ NearOne(magnitude(res.out))
    /\ res.out[4] = F(0)
    /\ \A i \in 1..4 : FMul(res.out[i], res.out[i]) = FDiv(FMul(args.a[i], args.a[i]),
                                                             SumOfSquares(args.a))

\* C23 as stated: for every vector v (w = 0), magnitude(normalize(v)) is 1
\* within 1e-5 and normalize(v) keeps w = 0, all four components being
\* divided by sqrt(x^2 + y^2 + z^2).
C23_NormalizeGivesUnitVector ==
    (res.op = "normalize" /\ IsVector(args.a)) => NormalizedAsClaimed

\* C23 amended: the same for every vector other than the zero vector, whose
\* magnitude is 0 and whose normalize is NaN in every component.
C23_NormalizeNonZeroVector ==
    (res.op = "normalize" /\ IsVector(args.a) /\ magnitude(args.a) # F(0)) =>
        NormalizedAsClaimed

\* C23 witness: the vector (2, -3, 6), of magnitude 7, normalized
C23_Witness ==
    /\ res.op = "normalize"
    /\ args.a = vector(F(2), F(-3), F(6))
    /\ res.out = vector(Q(2, 7), Q(-3, 7), Q(6, 7))

\* ------------------------------------------------------------ canvas actions

CanvasSizes == { <<2, 2>>, <<1, 2>>, <<0, 1>> }

PixelColors == { color(F(1), F(0), F(0)), color(F(0), Q(1, 2), F(1)) }

\* the coordinates inside the canvas
Inside(self) == (0..(self.width - 1)) \X (0..(self.height - 1))

\* the coordinates handed to the calls: those inside, and one column and one
\* row beyond
Coords(self) == (0..self.width) \X (0..self.height)

NothingWritten(self) ==
    [at |-> [xy \in Inside(self) |-> color(F(0), F(0), F(0))], inrange |-> TRUE]

\* Canvas::new(w, h)
CallCanvasNew(w, h) ==
    /\ canvas' = Canvas_new(w, h)
    /\ cres' = [NoCanvasResult EXCEPT !.op = "new"]
    /\ written' = NothingWritten(Canvas_new(w, h))
    /\ UNCHANGED <<matrixVars, worldVars, listVars, callVars>>

\* canvas.write_pixel(x, y, c)
CallWritePixel(x, y, c) ==
    /\ IF index_pre(canvas, x, y)
       THEN /\ canvas' = write_pixel(canvas, x, y, c)
            /\ cres' = [NoCanvasResult EXCEPT !.op = "write_pixel", !.x = x, !.y = y, !.out = c]
       ELSE /\ canvas' = canvas
            /\ cres' = [NoCanvasResult EXCEPT !.op = "write_pixel", !.x = x, !.y = y,
                                              !.ok = FALSE]
    /\ written' = IF <<x, y>> \in Inside(canvas)
                  THEN [written EXCEPT !.at[<<x, y>>] = c]
                  ELSE [written EXCEPT !.inrange = FALSE]
    /\ UNCHANGED <<matrixVars, worldVars, listVars, callVars>>

\* canvas.pixel_at(x, y)
CallPixelAt(x, y) ==
    /\ IF index_pre(canvas, x, y)
       THEN cres' = [NoCanvasResult EXCEPT !.op = "pixel_at", !.x = x, !.y = y,
                                           !.out = pixel_at(canvas, x, y)]
       ELSE cres' = [NoCanvasResult EXCEPT !.op = "pixel_at", !.x = x, !.y = y, !.ok = FALSE]
    /\ UNCHANGED <<canvas, written, matrixVars, worldVars, listVars, callVars>>

InitCanvas ==
    /\ \E s \in CanvasSizes :
          /\ canvas = Canvas_new(s[1], s[2])
          /\ written = NothingWritten(Canvas_new(s[1], s[2]))
    /\ cres = [NoCanvasResult EXCEPT !.op = "new"]
    /\ matrix = identity /\ mres = NoResult
    /\ world = World_new /\ ray = Ray_new(point(F(0), F(0), F(0)), vector(F(0), F(0), F(1)))
    /\ wres = NoWorldResult
    /\ xs = <<>> /\ lres = NoListResult
    /\ args = NoArgs /\ res = NoCall

NextCanvas ==
    \/ \E s \in CanvasSizes : CallCanvasNew(s[1], s[2])
    \/ \E xy \in Coords(canvas), c \in PixelColors : CallWritePixel(xy[1], xy[2], c)
    \/ \E xy \in Coords(canvas) : CallPixelAt(xy[1], xy[2])

SpecCanvas == InitCanvas /\ [][NextCanvas]_vars

\* pixel_at(x, y) returns, and returns c
PixelIs(self, x, y, c) == index_pre(self, x, y) /\ pixel_at(self, x, y) = c

\* a new canvas is black everywhere, and while every write was inside the
\* canvas each pixel holds the colour last written to it
PixelIsLastWrite ==
    /\ written.inrange =>
          /\ \A xy \in Inside(canvas) : PixelIs(canvas, xy[1], xy[2], written.at[xy])
          /\ (cres.op = "pixel_at" /\ <<cres.x, cres.y>> \in Inside(canvas)) =>
                 (cres.ok /\ cres.out = written.at[<<cres.x, cres.y>>])
          /\ (cres.op = "write_pixel" /\ <<cres.x, cres.y>> \in Inside(canvas)) => cres.ok
    /\ cres.op = "new" =>
           \A xy \in Inside(canvas) : PixelIs(canvas, xy[1], xy[2], color(F(0), F(0), F(0)))

\* the frame of a write: the width, the height and every pixel other than
\* (x, y) are as before
WriteFrame ==
    [][(cres'.op = "write_pixel" /\ written.inrange /\ written'.inrange) =>
          /\ canvas'.width = canvas.width /\ canvas'.height = canvas.height
          /\ \A xy \in Inside(canvas) :
                 xy # <<cres'.x, cres'.y>> =>
                     PixelIs(canvas', xy[1], xy[2], pixel_at(canvas, xy[1], xy[2]))]_vars

\* C24: a new canvas is black everywhere; after any sequence of write_pixel
\* calls inside the canvas, pixel_at(x, y) is the colour of the most recent
\* write to (x, y), or black if there was none; a write to (x, y) leaves
\* every other pixel, the width and the height unchanged.
C24_PixelIsLastWrite == []PixelIsLastWrite /\ WriteFrame

\* C24 witness: a pixel written twice holds the second colour, another pixel
\* the colour written to it, and a third is still black
C24_Witness ==
    /\ written.inrange /\ canvas.width = 2 /\ canvas.height = 2
    /\ cres.op = "pixel_at" /\ cres.x = 1 /\ cres.y = 1
    /\ cres.out = color(F(0), Q(1, 2), F(1))
    /\ pixel_at(canvas, 0, 1) = color(F(1), F(0), F(0))
    /\ pixel_at(canvas, 1, 0) = color(F(0), F(0), F(0))

\* C29: write_pixel and pixel_at with x >= width or y >= height fail and
\* leave the canvas unchanged; a coordinate out of range never reads or
\* overwrites the pixel of a coordinate in range.
C29_OutOfRangeFails ==
    [][(/\ cres'.op \in {"write_pixel", "pixel_at"}
        /\ (cres'.x >= canvas.width \/ cres'.y >= canvas.height)) =>
          (~cres'.ok /\ canvas' = canvas)]_vars

\* ------------------------------------------------- ties and degenerate rays

\* two spheres in the same place with different materials, and a sphere that
\* touches them at (0, 0, 1); a world holds each of them at most once
TieSpheres ==
    { Sphere_new,
      [transform |-> identity, material |-> DefaultMaterial],
      [transform |-> translation(F(0), F(0), F(2)), material |-> DefaultMaterial] }

EdgeWorlds ==
    { [light |-> l, objects |-> o] :
        l \in LightInputs,
        o \in { q \in UNION { [1..n -> TieSpheres] : n \in 0..MaxObjects } :
                    \A i, j \in 1..Len(q) : q[i] = q[j] => i = j } }

\* rays along z, and rays whose direction is the zero vector
EdgeRays ==
    { Ray_new(o, d) :
        o \in { point(F(0), F(0), F(0)), point(F(0), F(0), F(-5)) },
        d \in { vector(F(0), F(0), F(1)), vector(F(0), F(0), F(0)) } }

InitEdge ==
    /\ world \in EdgeWorlds
    /\ ray \in EdgeRays
    /\ wres = NoWorldResult
    /\ matrix = identity /\ mres = NoResult
    /\ xs = <<>> /\ lres = NoListResult
    /\ args = NoArgs /\ res = NoCall
    /\ NoCanvas

NextEdge ==
    \/ \E self \in 1..Len(world.objects) : CallSphereIntersect(self)
    \/ CallWorldIntersect
    \/ CallColorAt

SpecEdge == InitEdge /\ [][NextEdge]_vars

\* the smallest t >= 0 belongs to intersections of two different spheres
TiedFront == \E i, j \in LowestNonNegative : i.object # j.object

\* of the intersections with the smallest t >= 0, the one whose sphere comes
\* first in world.objects
FirstOfFront ==
    CHOOSE i \in LowestNonNegative : \A j \in LowestNonNegative : i.object <= j.object

\* C27: when intersections of two different spheres share the smallest
\* t >= 0, World.intersect keeps them in the order of the spheres in
\* world.objects, and hit and color_at take and shade the sphere that comes
\* first in that list.
C27_TieGoesToFirstSphere ==
    [][(TiedFront /\ wres'.ok) =>
          /\ wres'.op = "World.intersect" =>
                /\ \A k \in 1..(Len(wres'.xs) - 1) :
                       wres'.xs[k].t = wres'.xs[k + 1].t =>
                           wres'.xs[k].object <= wres'.xs[k + 1].object
                /\ wres'.xs[hit(wres'.xs)] = FirstOfFront
          /\ wres'.op = "color_at" =>
                wres'.color = shade_hit(prepare_computations(FirstOfFront, ray))]_vars

\* C27 witness: two spheres in the same place with different materials; the
\* ray is shaded with the material of the first
C27_Witness ==
    /\ wres.op = "color_at" /\ wres.ok
    /\ Len(world.objects) = 2 /\ world.light # <<>>
    /\ world.objects[1] = Sphere_new
    /\ world.objects[2] = [transform |-> identity, material |-> DefaultMaterial]
    /\ ray = Ray_new(point(F(0), F(0), F(-5)), vector(F(0), F(0), F(1)))
    /\ wres.color = lightning(Material_new, world.light[1], point(F(0), F(0), F(-1)),
                               vector(F(0), F(0), F(-1)), vector(F(0), F(0), F(-1)))
    /\ wres.color # lightning(DefaultMaterial, world.light[1], point(F(0), F(0), F(-1)),
                               vector(F(0), F(0), F(-1)), vector(F(0), F(0), F(-1)))

\* C30: Sphere.intersect never divides by zero and World.intersect never
\* aborts while sorting: for every ray, one with the zero vector as its
\* direction included, intersect returns no intersections or two finite t.
C30_IntersectIsFinite ==
    /\ (wres.op = "Sphere.intersect" /\ wres.ok) =>
           \/ wres.xs = <<>>
           \/ Len(wres.xs) = 2 /\ IsFinite(wres.xs[1].t) /\ IsFinite(wres.xs[2].t)
    /\ (wres.op = "World.intersect" /\ AllInvertible) =>
           (wres.ok /\ \A k \in 1..Len(wres.xs) : IsFinite(wres.xs[k].t))

\* ------------------------------------------------------------ Canvas.to_ppm

\* a String is the sequence of its characters
Digits == <<"0", "1", "2", "3", "4", "5", "6", "7", "8", "9">>

\* format!("{}", n) of an integer
RECURSIVE format(_)
format(n) ==
    IF n < 0 THEN <<"-">> \o format(-n)
    ELSE IF n < 10 THEN <<Digits[n + 1]>>
    ELSE format(n \div 10) \o <<Digits[(n % 10) + 1]>>

I32Max == 2147483647
I32Min == (-I32Max) - 1

\* f64::round: the nearest integer, halves away from zero
round(x) ==
    Let(x, LAMBDA v :
        IF v[2] = 0 THEN v
        ELSE F(Sgn(v[1]) * ((2 * Abs(v[1]) + v[2]) \div (2 * v[2]))))

\* `as i32` of an integral f64: saturating, NaN gives 0
as_i32(x) ==
    Let(x, LAMBDA v :
        IF v = NaN THEN 0
        ELSE IF v = PosInf THEN I32Max
        ELSE IF v = NegInf THEN I32Min
        ELSE v[1])

\* ppm_color without the two comparisons
ppm_color_unclamped(x) == as_i32(round(FMul(x, F(255))))

ppm_color(x) ==
    Let(as_i32(round(FMul(x, F(255)))), LAMBDA v :
        IF v < 0 THEN 0 ELSE IF v > 255 THEN 255 ELSE v)

\* one turn of the loop of colors_to_ppm_string: acc holds s and pos
push_color(acc, i) ==
    Let2(acc, format(i), LAMBDA a, n :
        Let(IF a.pos + Len(n) >= 68 THEN [s |-> Append(a.s, "\n"), pos |-> 0] ELSE a,
            LAMBDA b :
        Let(IF b.pos # 0 THEN [s |-> Append(b.s, " "), pos |-> b.pos + 1] ELSE b,
            LAMBDA c :
        [s |-> c.s \o n, pos |-> c.pos + Len(n)])))

RECURSIVE colors_loop(_, _)
colors_loop(v, k) ==
    IF k = 0 THEN [s |-> <<>>, pos |-> 0] ELSE push_color(colors_loop(v, k - 1), v[k])

colors_to_ppm_string(v) == Let(v, LAMBDA w : colors_loop(w, Len(w)).s)

ppm_header(self) ==
    <<"P", "3", "\n">> \o format(self.width) \o <<" ">> \o format(self.height)
        \o <<"\n", "2", "5", "5", "\n">>

\* the Vec v of row j
ppm_row(self, j) ==
    Flatten([i \in 1..self.width |->
        Let(pixel_at(self, i - 1, j), LAMBDA c :
            <<ppm_color(c[1]), ppm_color(c[2]), ppm_color(c[3])>>)])

to_ppm(self) ==
    ppm_header(self)
        \o Flatten([j \in 1..self.height |->
              Append(colors_to_ppm_string(ppm_row(self, j - 1)), "\n")])

PpmSizes == { <<10, 2>>, <<5, 3>>, <<6, 1>>, <<3, 2>>, <<1, 1>>, <<0, 2>>, <<2, 0>> }

PpmColors ==
    { color(F(0), F(0), F(0)), color(F(1), Q(4, 5), Q(3, 5)),
      color(Q(3, 2), F(0), Q(1, 2)), color(Q(-1, 2), F(0), F(1)) }

\* the canvas after writing c1 to the pixels with an even index and c2 to the
\* others
Painted(w, h, c1, c2) ==
    [width |-> w, height |-> h,
     canvas |-> [i \in 1..(w * h) |-> IF i % 2 = 1 THEN c1 ELSE c2]]

\* the canvas of the test constructing_ppm_pixel_data
TestCanvas ==
    write_pixel(write_pixel(write_pixel(Canvas_new(5, 3),
        0, 0, color(Q(3, 2), F(0), F(0))),
        2, 1, color(F(0), Q(1, 2), F(0))),
        4, 2, color(Q(-1, 2), F(0), F(1)))

PpmCanvases ==
    { Painted(sz[1], sz[2], c1, c2) : sz \in PpmSizes, c1 \in PpmColors, c2 \in PpmColors }
        \cup { TestCanvas }

CallToPpm ==
    /\ cres.op # "to_ppm"
    /\ cres' = [NoCanvasResult EXCEPT !.op = "to_ppm", !.out = to_ppm(canvas)]
    /\ UNCHANGED <<matrix, mres, world, ray, wres, xs, lres, args, res, canvas, written>>

InitPpm ==
    /\ canvas \in PpmCanvases
    /\ cres = NoCanvasResult
    /\ written = [at |-> <<>>, inrange |-> TRUE]
    /\ matrix = identity /\ mres = NoResult
    /\ world = World_new /\ ray = Ray_new(point(F(0), F(0), F(0)), vector(F(0), F(0), F(1)))
    /\ wres = NoWorldResult
    /\ xs = <<>> /\ lres = NoListResult
    /\ args = NoArgs /\ res = NoCall

NextPpm == CallToPpm

SpecPpm == InitPpm /\ [][NextPpm]_vars

IsDigit(ch) == \E k \in 1..10 : Digits[k] = ch

\* the number a run of digits writes
RECURSIVE Value(_)
Value(run) ==
    IF run = <<>> THEN 0
    ELSE 10 * Value(SubSeq(run, 1, Len(run) - 1))
            + (CHOOSE k \in 0..9 : Digits[k + 1] = run[Len(run)])

\* the decimal numeral of n < 100, without leading zeros
Decimal(n) ==
    CHOOSE run \in UNION { [1..k -> { Digits[d] : d \in 1..10 }] : k \in 1..2 } :
        Value(run) = n /\ (Len(run) = 1 \/ run[1] # "0")

\* the elements of a set of integers in increasing order
RECURSIVE Increasing(_)
Increasing(S) ==
    IF S = {} THEN <<>>
    ELSE Let(CHOOSE m \in S : \A o \in S : m <= o, LAMBDA m : <<m>> \o Increasing(S \ {m}))

\* where the numbers of a text start, in order
NumberStarts(text) ==
    Increasing({ i \in 1..Len(text) :
                    IsDigit(text[i]) /\ (i = 1 \/ ~IsDigit(text[i - 1])) })

\* the last character of the number that starts at i
NumberEnd(text, i) ==
    CHOOSE e \in i..Len(text) :
        /\ \A k \in i..e : IsDigit(text[k])
        /\ e = Len(text) \/ ~IsDigit(text[e + 1])

\* the lengths of the lines of a text in which every line ends with "\n"
LineLengths(text) ==
    Let(Increasing({ i \in 1..Len(text) : text[i] = "\n" }), LAMBDA nl :
        [k \in 1..Len(nl) |-> IF k = 1 THEN nl[1] - 1 ELSE nl[k] - nl[k - 1] - 1])

\* round(255 x) for a finite x, as the integer nearest to it (the one further
\* from zero of two), then brought into 0..255
Channel(x) ==
    Let(CHOOSE n \in -1000..1000 :
            \/ 2 * Abs(255 * x[1] - n * x[2]) < x[2]
            \/ /\ 2 * Abs(255 * x[1] - n * x[2]) = x[2]
               /\ Abs(n) * x[2] > Abs(255 * x[1]),
        LAMBDA n : IF n < 0 THEN 0 ELSE IF n > 255 THEN 255 ELSE n)

\* the r, g, b of every pixel, row after row
ChannelsOf(self) ==
    [k \in 1..(3 * self.width * self.height) |->
        Channel(self.canvas[((k - 1) \div 3) + 1][((k - 1) % 3) + 1])]

PpmAsClaimed(self, out) ==
    Let2(ppm_header(self), ChannelsOf(self), LAMBDA head, want :
        /\ head = <<"P", "3", "\n">> \o Decimal(self.width) \o <<" ">>
                      \o Decimal(self.height) \o <<"\n", "2", "5", "5", "\n">>
        /\ Len(out) >= Len(head) /\ SubSeq(out, 1, Len(head)) = head
        /\ out[Len(out)] = "\n"
        /\ \A k \in 1..Len(LineLengths(out)) : LineLengths(out)[k] <= 70
        /\ Let(SubSeq(out, Len(head) + 1, Len(out)), LAMBDA body :
             Let(NumberStarts(body), LAMBDA first :
               /\ \A i \in 1..Len(body) : IsDigit(body[i]) \/ body[i] \in {" ", "\n"}
               /\ Len(first) = Len(want)
               /\ \A k \in 1..Len(first) :
                     /\ Value(SubSeq(body, first[k], NumberEnd(body, first[k]))) = want[k]
                     \* the last number of a row ends its line
                     /\ k % (3 * self.width) = 0 => body[NumberEnd(body, first[k]) + 1] = "\n")))

\* C25: to_ppm writes the header P3, 'width height', 255 and then, row after
\* row, the r g b of every pixel as round(255 x) brought into 0..255; no line
\* has more than 70 characters, no number is split across lines, every row of
\* pixels ends its line and the text ends with a newline.
C25_PpmLayout == cres.op = "to_ppm" => PpmAsClaimed(canvas, cres.out)

\* C25 witness: the canvas of 10 x 2 pixels of color (1, 0.8, 0.6): each row
\* takes a line of 17 numbers and a line of 13, as the source's test expects
C25_Witness ==
    /\ cres.op = "to_ppm"
    /\ canvas = Painted(10, 2, color(F(1), Q(4, 5), Q(3, 5)), color(F(1), Q(4, 5), Q(3, 5)))
    /\ LineLengths(cres.out) = <<2, 4, 3, 67, 51, 67, 51>>
    /\ SubSeq(cres.out, 1, 23) =
          <<"P", "3", "\n", "1", "0", " ", "2", "\n", "2", "5", "5", "\n",
            "2", "5", "5", " ", "2", "0", "4", " ", "1", "5", "3">>

====
